---------------------------- MODULE Spec2Model ----------------------------
(***************************************************************************)
(* Model of the SEPA bulk ingestion pipeline (app/services/importador.py). *)
(*                                                                         *)
(* Text read from the CSV files is a sequence of one-character strings, so *)
(* that strip(), int() and float() are computed, not assumed.  A parsed    *)
(* price is an exact decimal (sign, integer digits, fraction digits); the  *)
(* database column NUMERIC(10,2) holds an integer number of cents.         *)
(***************************************************************************)
EXTENDS Integers, Sequences, FiniteSets, Bags, TLC

(***************************************************************************)
(* Bounds of the model.                                                    *)
(***************************************************************************)
\* number of per-merchant archives in the outer archive
MaxZips == 2
\* number of runs of procesar_zip_sepa in one behaviour
MaxRuns == 2
\* number of data rows of a file given to a function applied on its own
MaxFilas == 2

(***************************************************************************)
(* config/settings.py                                                      *)
(***************************************************************************)
COMERCIOS_PERMITIDOS == {9, 12, 15, 10}

(***************************************************************************)
(* Python text primitives.                                                 *)
(***************************************************************************)
Digits == <<"0", "1", "2", "3", "4", "5", "6", "7", "8", "9">>

IsDigit(c) == \E d \in 1..10 : Digits[d] = c

DigitVal(c) == (CHOOSE d \in 1..10 : Digits[d] = c) - 1

RECURSIVE LStrip(_)
LStrip(s) == IF s # <<>> /\ Head(s) = " " THEN LStrip(Tail(s)) ELSE s

RECURSIVE RStrip(_)
RStrip(s) ==
    IF s # <<>> /\ s[Len(s)] = " " THEN RStrip(SubSeq(s, 1, Len(s) - 1)) ELSE s

\* str.strip()
Strip(s) == RStrip(LStrip(s))

RECURSIVE DigitsValue(_)
DigitsValue(s) ==
    IF s = <<>> THEN 0
    ELSE 10 * DigitsValue(SubSeq(s, 1, Len(s) - 1)) + DigitVal(s[Len(s)])

AllDigits(s) == s # <<>> /\ \A k \in 1..Len(s) : IsDigit(s[k])

HasSign(s) == s # <<>> /\ Head(s) \in {"-", "+"}

Unsigned(s) == IF HasSign(s) THEN Tail(s) ELSE s

SignOf(s) == IF s # <<>> /\ Head(s) = "-" THEN -1 ELSE 1

RECURSIVE StripZeros(_)
StripZeros(s) == IF s # <<>> /\ Head(s) = "0" THEN StripZeros(Tail(s)) ELSE s

Int32Max == <<"2", "1", "4", "7", "4", "8", "3", "6", "4", "7">>

\* m <= n for two digit strings of the same length
RECURSIVE DigitsLeq(_, _)
DigitsLeq(m, n) ==
    IF m = <<>> THEN TRUE
    ELSE IF DigitVal(Head(m)) # DigitVal(Head(n))
         THEN DigitVal(Head(m)) < DigitVal(Head(n))
         ELSE DigitsLeq(Tail(m), Tail(n))

\* the magnitude written by digit string m (no leading zero) fits 32 bits
FitsInt32(m) == Len(m) < 10 \/ (Len(m) = 10 /\ DigitsLeq(m, Int32Max))

\* int(s): surrounding blanks are ignored, an optional sign, decimal digits;
\* anything else raises ValueError (ok = FALSE).  Python integers are
\* unbounded: a value of more than 32 bits is kept as grande = TRUE.
PyInt(s) ==
    LET t == Strip(s)
        u == Unsigned(t)
        m == StripZeros(u)
    IN  IF ~AllDigits(u) THEN [ok |-> FALSE, grande |-> FALSE, val |-> 0]
        ELSE IF ~FitsInt32(m) THEN [ok |-> TRUE, grande |-> TRUE, val |-> 0]
        ELSE [ok |-> TRUE, grande |-> FALSE, val |-> SignOf(t) * DigitsValue(m)]

\* the allow-list test left out
PermitidoSiempre(n) == TRUE

\* x in COMERCIOS_PERMITIDOS for a parsed integer
Permitido(n) == ~n.grande /\ n.val \in COMERCIOS_PERMITIDOS

PointAt(u) == {k \in 1..Len(u) : u[k] = "."}

\* float(s) on plain decimal literals: [sign] digits [ "." digits ].
\* The value is kept exact: sign, integer digits, fraction digits.  Anything
\* else raises ValueError (the model's inputs hold no exponent, inf or nan
\* literal, and are short enough for repr(float(s)) to denote the same
\* decimal).
PyFloat(s) ==
    LET t == Strip(s)
        u == Unsigned(t)
        p == PointAt(u)
        k == IF p = {} THEN Len(u) + 1 ELSE CHOOSE x \in p : TRUE
        ip == SubSeq(u, 1, k - 1)
        fp == SubSeq(u, k + 1, Len(u))
    IN  IF Cardinality(p) <= 1 /\ (ip \o fp) # <<>>
           /\ (ip = <<>> \/ AllDigits(ip)) /\ (fp = <<>> \/ AllDigits(fp))
        THEN [ok |-> TRUE, sign |-> SignOf(t), ip |-> StripZeros(ip), fp |-> fp]
        ELSE [ok |-> FALSE, sign |-> 1, ip |-> <<>>, fp |-> <<>>]

(***************************************************************************)
(* PostgreSQL column types.                                                *)
(***************************************************************************)
\* INTEGER: a value outside the 32-bit range is a statement error.
PgIntegerOk(n) == ~n.grande

\* the k-th fraction digit of f, 0 when absent
FracDigit(f, k) == IF k <= Len(f.fp) THEN DigitVal(f.fp[k]) ELSE 0

\* NUMERIC(10,2) as a number of cents: round half away from zero on the
\* third decimal.
PgNumericCents(f) ==
    f.sign * (DigitsValue(f.ip) * 100 + FracDigit(f, 1) * 10 + FracDigit(f, 2)
              + (IF FracDigit(f, 3) >= 5 THEN 1 ELSE 0))

\* NUMERIC(10,2): at most eight digits before the decimal point, else the
\* statement fails with a numeric field overflow.  (The model's prices have
\* at most six integer digits, or more than eight.)
PgNumericOk(f) == Len(f.ip) <= 8

\* COPY ... FORMAT csv: an unquoted empty field is NULL.
SqlNull == <<"NULL">>

PgCsvText(s) == IF s = <<>> THEN SqlNull ELSE s

(***************************************************************************)
(* preparar_csv_para_copy: validation of the rows of one productos.csv.    *)
(* A listing file is [filas, error_en]: its data rows, and the index of    *)
(* the row at which reading raises (0: the file reads to its end).         *)
(***************************************************************************)
ErroresCero ==
    [sin_id_producto |-> 0, id_comercio_no_permitido |-> 0, sin_id_bandera |-> 0,
     sin_precio |-> 0, sin_descripcion |-> 0, otros |-> 0]

\* the value of `x.strip() if x else ''`
Campo(x) == Strip(x)

\* the row loop with the allow-list test made before the test of the
\* product code
ValidarFilaOrdenCambiado(fila) ==
    LET id_producto == Campo(fila.id_producto)
        id_comercio_valor == Campo(fila.id_comercio)
        id_comercio == PyInt(id_comercio_valor)
        id_bandera_str == Campo(fila.id_bandera)
        id_bandera == PyInt(id_bandera_str)
        precio_str == Campo(fila.productos_precio_lista)
        precio_lista == PyFloat(precio_str)
        descripcion == Campo(fila.productos_descripcion)
        marca == Campo(fila.productos_marca)
        rechazo(m) == [motivo |-> m, salida |-> <<>>]
    IN  IF id_comercio_valor = <<>> THEN rechazo("otros")
        ELSE IF ~id_comercio.ok THEN rechazo("otros")
        ELSE IF ~Permitido(id_comercio) THEN rechazo("id_comercio_no_permitido")
        ELSE IF id_producto = <<>> THEN rechazo("sin_id_producto")
        ELSE IF id_bandera_str = <<>> THEN rechazo("sin_id_bandera")
        ELSE IF ~id_bandera.ok THEN rechazo("sin_id_bandera")
        ELSE IF precio_str = <<>> THEN rechazo("sin_precio")
        ELSE IF ~precio_lista.ok THEN rechazo("sin_precio")
        ELSE IF descripcion = <<>> THEN rechazo("sin_descripcion")
        ELSE [motivo |-> "ok",
              salida |-> <<[id_comercio |-> id_comercio, id_bandera |-> id_bandera,
                            id_producto |-> id_producto, precio |-> precio_lista,
                            descripcion |-> descripcion, marca |-> marca]>>]

\* The body of the row loop: "ok" and the row written to the clean file, or
\* the name of the counter the row increments.
ValidarFila(fila) ==
    LET id_producto == Campo(fila.id_producto)
        id_comercio_valor == Campo(fila.id_comercio)
        id_comercio == PyInt(id_comercio_valor)
        id_bandera_str == Campo(fila.id_bandera)
        id_bandera == PyInt(id_bandera_str)
        precio_str == Campo(fila.productos_precio_lista)
        precio_lista == PyFloat(precio_str)
        descripcion == Campo(fila.productos_descripcion)
        marca == Campo(fila.productos_marca)
        rechazo(m) == [motivo |-> m, salida |-> <<>>]
    IN  IF id_producto = <<>> THEN rechazo("sin_id_producto")
        ELSE IF id_comercio_valor = <<>> THEN rechazo("otros")
        ELSE IF ~id_comercio.ok THEN rechazo("otros")
        ELSE IF ~Permitido(id_comercio) THEN rechazo("id_comercio_no_permitido")
        ELSE IF id_bandera_str = <<>> THEN rechazo("sin_id_bandera")
        ELSE IF ~id_bandera.ok THEN rechazo("sin_id_bandera")
        ELSE IF precio_str = <<>> THEN rechazo("sin_precio")
        ELSE IF ~precio_lista.ok THEN rechazo("sin_precio")
        ELSE IF descripcion = <<>> THEN rechazo("sin_descripcion")
        ELSE [motivo |-> "ok",
              salida |-> <<[id_comercio |-> id_comercio, id_bandera |-> id_bandera,
                            id_producto |-> id_producto, precio |-> precio_lista,
                            descripcion |-> descripcion, marca |-> marca]>>]

\* The row loop from row k on; acc is [excepcion, total_filas, filas_validas,
\* errores, limpio].
RECURSIVE PrepararDesde(_, _, _)
PrepararDesde(archivo, k, acc) ==
    IF k > Len(archivo.filas) THEN acc
    ELSE IF archivo.error_en = k THEN [acc EXCEPT !.excepcion = TRUE]
    ELSE LET v == ValidarFila(archivo.filas[k])
             leida == [acc EXCEPT !.total_filas = @ + 1]
         IN  IF v.motivo = "ok"
             THEN PrepararDesde(archivo, k + 1,
                      [leida EXCEPT !.filas_validas = @ + 1,
                                    !.limpio = @ \o v.salida])
             ELSE PrepararDesde(archivo, k + 1,
                      [leida EXCEPT !.errores[v.motivo] = @ + 1])

preparar_csv_para_copy(archivo) ==
    PrepararDesde(archivo, 1,
        [excepcion |-> FALSE, total_filas |-> 0, filas_validas |-> 0,
         errores |-> ErroresCero, limpio |-> <<>>])

SumaErrores(e) ==
    e.sin_id_producto + e.id_comercio_no_permitido + e.sin_id_bandera
    + e.sin_precio + e.sin_descripcion + e.otros

(***************************************************************************)
(* The database.  db holds the committed tables; conn is the connection of *)
(* the import: estado is "idle" (no transaction), "open" or "aborted" (a   *)
(* statement failed: every statement raises until the transaction ends),   *)
(* vista the tables as the connection sees them.                           *)
(***************************************************************************)
TablasVacias ==
    [comercios |-> {}, productos |-> EmptyBag, productos_staging |-> EmptyBag,
     indices |-> {}]

\* conn.commit(): COMMIT of an aborted transaction is a rollback.
Commit(conn, db) ==
    IF conn.estado = "open"
    THEN [conn |-> [conn EXCEPT !.estado = "idle"], db |-> conn.vista]
    ELSE [conn |-> [conn EXCEPT !.estado = "idle", !.vista = db], db |-> db]

\* conn.rollback()
Rollback(conn, db) == [conn EXCEPT !.estado = "idle", !.vista = db]

\* a statement that succeeds, leaving the tables as t
Ejecutar(conn, t) == [conn EXCEPT !.estado = "open", !.vista = t]

\* a statement that fails
Abortar(conn) == [conn EXCEPT !.estado = "aborted"]

(***************************************************************************)
(* importar_productos_desde_csv: COPY of the clean file into staging.      *)
(***************************************************************************)
\* the values COPY stores for one row of the clean file
FilaStaging(f) ==
    [id_comercio |-> f.id_comercio.val, id_bandera |-> f.id_bandera.val,
     id_producto |-> PgCsvText(f.id_producto), precio |-> PgNumericCents(f.precio),
     descripcion |-> PgCsvText(f.descripcion), marca |-> PgCsvText(f.marca)]

\* COPY accepts the row
FilaCopiable(f) ==
    PgIntegerOk(f.id_comercio) /\ PgIntegerOk(f.id_bandera) /\ PgNumericOk(f.precio)

RECURSIVE BolsaDe(_)
BolsaDe(filas) ==
    IF filas = <<>> THEN EmptyBag
    ELSE SetToBag({FilaStaging(Head(filas))}) (+) BolsaDe(Tail(filas))

\* COPY is one statement: it appends every row or fails as a whole.
CopyOk(conn, limpio) ==
    conn.estado # "aborted" /\ \A k \in 1..Len(limpio) : FilaCopiable(limpio[k])

\* the COPY left uncommitted
importar_productos_sin_commit(conn, db, archivo) ==
    LET prep == preparar_csv_para_copy(archivo)
        fallo == [conn |-> Rollback(conn, db), db |-> db, filas |-> 0, errores |-> 0,
                  resultado |-> "error"]
    IN  IF prep.excepcion THEN fallo
        ELSE IF prep.filas_validas = 0
        THEN [conn |-> conn, db |-> db, filas |-> 0,
              errores |-> SumaErrores(prep.errores), resultado |-> "vacio"]
        ELSE IF ~CopyOk(conn, prep.limpio) THEN fallo
        ELSE [conn |-> Ejecutar(conn, [conn.vista EXCEPT !.productos_staging =
                                           @ (+) BolsaDe(prep.limpio)]),
              db |-> db, filas |-> prep.filas_validas,
              errores |-> SumaErrores(prep.errores), resultado |-> "cargado"]

\* the failed COPY left without its rollback
importar_productos_sin_rollback(conn, db, archivo) ==
    LET prep == preparar_csv_para_copy(archivo)
    IN  IF prep.excepcion
        THEN [conn |-> conn, db |-> db, filas |-> 0, errores |-> 0,
              resultado |-> "error"]
        ELSE IF prep.filas_validas = 0
        THEN [conn |-> conn, db |-> db, filas |-> 0,
              errores |-> SumaErrores(prep.errores), resultado |-> "vacio"]
        ELSE IF ~CopyOk(conn, prep.limpio)
        THEN [conn |-> Abortar(conn), db |-> db, filas |-> 0, errores |-> 0,
              resultado |-> "error"]
        ELSE LET c == Commit(Ejecutar(conn,
                          [conn.vista EXCEPT !.productos_staging =
                               @ (+) BolsaDe(prep.limpio)]), db)
             IN  [conn |-> c.conn, db |-> c.db, filas |-> prep.filas_validas,
                  errores |-> SumaErrores(prep.errores), resultado |-> "cargado"]

\* without the early return for a clean file of no rows: the COPY is issued
\* and committed
importar_productos_sin_retorno(conn, db, archivo) ==
    LET prep == preparar_csv_para_copy(archivo)
        fallo == [conn |-> Rollback(conn, db), db |-> db, filas |-> 0, errores |-> 0,
                  resultado |-> "error"]
    IN  IF prep.excepcion THEN fallo
        ELSE IF ~CopyOk(conn, prep.limpio) THEN fallo
        ELSE LET c == Commit(Ejecutar(conn,
                          [conn.vista EXCEPT !.productos_staging =
                               @ (+) BolsaDe(prep.limpio)]), db)
             IN  [conn |-> c.conn, db |-> c.db, filas |-> prep.filas_validas,
                  errores |-> SumaErrores(prep.errores), resultado |-> "cargado"]

importar_productos_desde_csv(conn, db, archivo) ==
    LET prep == preparar_csv_para_copy(archivo)
        fallo == [conn |-> Rollback(conn, db), db |-> db, filas |-> 0, errores |-> 0,
                  resultado |-> "error"]
    IN  IF prep.excepcion THEN fallo
        ELSE IF prep.filas_validas = 0
        THEN [conn |-> conn, db |-> db, filas |-> 0,
              errores |-> SumaErrores(prep.errores), resultado |-> "vacio"]
        ELSE IF ~CopyOk(conn, prep.limpio) THEN fallo
        ELSE LET c == Commit(Ejecutar(conn,
                          [conn.vista EXCEPT !.productos_staging =
                               @ (+) BolsaDe(prep.limpio)]), db)
             IN  [conn |-> c.conn, db |-> c.db, filas |-> prep.filas_validas,
                  errores |-> SumaErrores(prep.errores), resultado |-> "cargado"]

(***************************************************************************)
(* importar_comercios_desde_csv: upsert of the rows of one comercio.csv.   *)
(* A metadata file is [filas, error_en] like a listing file.               *)
(***************************************************************************)
ClaveComercio(r) == <<r.id_comercio, r.id_bandera>>

\* INSERT ... ON CONFLICT (id_comercio, id_bandera) DO NOTHING
UpsertNoActualiza(comercios, r) ==
    IF \E c \in comercios : <<c.id_comercio, c.id_bandera>> = <<r.id_comercio, r.id_bandera>>
    THEN comercios
    ELSE comercios \cup {r}

\* INSERT ... ON CONFLICT (id_comercio, id_bandera) DO UPDATE SET ...
Upsert(comercios, r) ==
    {c \in comercios : ClaveComercio(c) # ClaveComercio(r)} \cup {r}

\* the row checks without `id_comercio not in COMERCIOS_PERMITIDOS`
ClasificarComercioSinLista(fila) ==
    LET id_comercio == PyInt(fila.id_comercio)
        id_bandera == PyInt(fila.id_bandera)
    IN  IF Strip(fila.id_comercio) = <<>> THEN "skip"
        ELSE IF ~id_comercio.ok THEN "skip"
        ELSE IF Strip(fila.id_bandera) = <<>> THEN "skip"
        ELSE IF ~id_bandera.ok THEN "skip"
        ELSE IF ~PgIntegerOk(id_bandera) THEN "db_error"
        ELSE "insert"

\* "skip" (continue), "insert" or "db_error" (the INSERT raises) for one row
ClasificarComercio(fila) ==
    LET id_comercio == PyInt(fila.id_comercio)
        id_bandera == PyInt(fila.id_bandera)
    IN  IF Strip(fila.id_comercio) = <<>> THEN "skip"
        ELSE IF ~id_comercio.ok THEN "skip"
        ELSE IF ~Permitido(id_comercio) THEN "skip"
        ELSE IF Strip(fila.id_bandera) = <<>> THEN "skip"
        ELSE IF ~id_bandera.ok THEN "skip"
        ELSE IF ~PgIntegerOk(id_bandera) THEN "db_error"
        ELSE "insert"

RegistroComercio(fila) ==
    [id_comercio |-> PyInt(fila.id_comercio).val,
     id_bandera |-> PyInt(fila.id_bandera).val,
     comercio_razon_social |-> fila.comercio_razon_social,
     comercio_bandera_nombre |-> fila.comercio_bandera_nombre,
     comercio_bandera_url |-> fila.comercio_bandera_url]

\* the INSERT without its ON CONFLICT clause: a row whose key is already in
\* the registry raises a unique violation
RECURSIVE ComerciosDesdeSinOnConflict(_, _, _, _, _)
ComerciosDesdeSinOnConflict(conn, db, archivo, k, contador) ==
    LET error == [conn |-> conn, db |-> db, contador |-> 0, resultado |-> "error"]
    IN  IF k > Len(archivo.filas)
        THEN LET c == Commit(conn, db)
             IN  [conn |-> c.conn, db |-> c.db, contador |-> contador,
                  resultado |-> "ok"]
        ELSE IF archivo.error_en = k THEN error
        ELSE LET fila == archivo.filas[k]
                 clase == ClasificarComercio(fila)
             IN  IF clase = "skip"
                 THEN ComerciosDesdeSinOnConflict(conn, db, archivo, k + 1, contador)
                 ELSE IF conn.estado = "aborted" THEN error
                 ELSE IF clase = "db_error"
                 THEN [error EXCEPT !.conn = Abortar(conn)]
                 ELSE IF \E c \in conn.vista.comercios :
                            <<c.id_comercio, c.id_bandera>>
                                = <<RegistroComercio(fila).id_comercio,
                                    RegistroComercio(fila).id_bandera>>
                 THEN [error EXCEPT !.conn = Abortar(conn)]
                 ELSE ComerciosDesdeSinOnConflict(
                          Ejecutar(conn, [conn.vista EXCEPT !.comercios =
                                              @ \cup {RegistroComercio(fila)}]),
                          db, archivo, k + 1, contador + 1)

\* The row loop from row k on.  An exception (a read error, a failed
\* INSERT, any statement in an aborted transaction) leaves the function
\* through `except Exception`: it returns 0 and neither commits nor rolls
\* back.
RECURSIVE ComerciosDesde(_, _, _, _, _)
ComerciosDesde(conn, db, archivo, k, contador) ==
    LET error == [conn |-> conn, db |-> db, contador |-> 0, resultado |-> "error"]
    IN  IF k > Len(archivo.filas)
        THEN LET c == Commit(conn, db)
             IN  [conn |-> c.conn, db |-> c.db, contador |-> contador,
                  resultado |-> "ok"]
        ELSE IF archivo.error_en = k THEN error
        ELSE LET fila == archivo.filas[k]
                 clase == ClasificarComercio(fila)
             IN  IF clase = "skip"
                 THEN ComerciosDesde(conn, db, archivo, k + 1, contador)
                 ELSE IF conn.estado = "aborted" THEN error
                 ELSE IF clase = "db_error"
                 THEN [error EXCEPT !.conn = Abortar(conn)]
                 ELSE ComerciosDesde(
                          Ejecutar(conn, [conn.vista EXCEPT !.comercios =
                                              Upsert(@, RegistroComercio(fila))]),
                          db, archivo, k + 1, contador + 1)

importar_comercios_desde_csv(conn, db, archivo) ==
    ComerciosDesde(conn, db, archivo, 1, 0)

(***************************************************************************)
(* mover_datos_staging_a_final                                             *)
(***************************************************************************)
ClaveProducto(r) == <<r.id_comercio, r.id_bandera, r.id_producto>>

Claves(staging) == {ClaveProducto(r) : r \in BagToSet(staging)}

FilasDeClave(staging, k) == {r \in BagToSet(staging) : ClaveProducto(r) = k}

\* ORDER BY ... productos_precio_lista DESC: the rows of the highest price
PrimerasDeClaveDesc(staging, k) ==
    {r \in BagToSet(staging) :
        /\ <<r.id_comercio, r.id_bandera, r.id_producto>> = k
        /\ \A q \in BagToSet(staging) :
              <<q.id_comercio, q.id_bandera, q.id_producto>> = k
                  => r.precio >= q.precio}

\* the rows ORDER BY ..., productos_precio_lista may place first in the group
\* of key k: those of the lowest price
PrimerasDeClave(staging, k) ==
    {r \in FilasDeClave(staging, k) :
        \A q \in FilasDeClave(staging, k) : r.precio <= q.precio}

\* SELECT DISTINCT ON (id_comercio, id_bandera, id_producto) ... ORDER BY
\* id_comercio, id_bandera, id_producto, productos_precio_lista: one row per
\* key, the first of its group.  Rows of equal price are in no defined order,
\* so every choice among them is a possible result.
SeleccionesDistinctOn(staging) ==
    {sel \in [Claves(staging) -> BagToSet(staging)] :
        \A k \in Claves(staging) : sel[k] \in PrimerasDeClave(staging, k)}

FilasSeleccionadas(sel) == {sel[k] : k \in DOMAIN sel}

\* the compaction without TRUNCATE TABLE productos_staging
mover_datos_sin_truncate(conn, db, sel) ==
    LET insertadas == FilasSeleccionadas(sel)
        c == Commit(Ejecutar(conn,
                 [conn.vista EXCEPT !.productos = @ (+) SetToBag(insertadas)]), db)
    IN  [conn |-> c.conn, db |-> c.db, filas_insertadas |-> Cardinality(insertadas)]

\* The INSERT runs with session_replication_role = replica: the foreign key
\* to comercios is not checked.  Then staging is truncated and the
\* transaction committed.  The result for one selection sel.
mover_datos_staging_a_final(conn, db, sel) ==
    LET insertadas == FilasSeleccionadas(sel)
        c == Commit(Ejecutar(conn,
                 [conn.vista EXCEPT !.productos = @ (+) SetToBag(insertadas),
                                    !.productos_staging = EmptyBag]), db)
    IN  [conn |-> c.conn, db |-> c.db, filas_insertadas |-> Cardinality(insertadas)]

(***************************************************************************)
(* crear_indices_productos                                                 *)
(***************************************************************************)
\* CREATE INDEX without IF NOT EXISTS: the statement raises when the index
\* exists, and the commit is not reached
crear_indices_sin_if_not_exists(conn, db) ==
    IF conn.vista.indices # {}
    THEN [conn |-> Abortar(conn), db |-> db]
    ELSE Commit(Ejecutar(conn,
             [conn.vista EXCEPT !.indices =
                  @ \cup {"idx_codigo_barras", "idx_comercio_bandera"}]), db)

crear_indices_productos(conn, db) ==
    Commit(Ejecutar(conn,
        [conn.vista EXCEPT !.indices =
             @ \cup {"idx_codigo_barras", "idx_comercio_bandera"}]), db)

(***************************************************************************)
(* BuscadorProductos.buscar_por_codigo_barras: one SELECT on the committed *)
(* tables d, as any other session sees them.                               *)
(***************************************************************************)
\* productos p INNER JOIN comercios c ON the pair, WHERE p.id_producto = codigo
FilasUnidas(d, codigo) ==
    {<<p, c>> \in BagToSet(d.productos) \X d.comercios :
        /\ p.id_comercio = c.id_comercio
        /\ p.id_bandera = c.id_bandera
        /\ p.id_producto = codigo}

ParesUnidos(d, codigo) ==
    {<<f[1].id_comercio, f[1].id_bandera>> : f \in FilasUnidas(d, codigo)}

\* the joined rows DISTINCT ON (p.id_comercio, p.id_bandera) ... ORDER BY the
\* pair, p.productos_precio_lista ASC may keep for a pair: those of the
\* lowest price
PrimerasDePar(d, codigo, par) ==
    {f \in FilasUnidas(d, codigo) :
        /\ <<f[1].id_comercio, f[1].id_bandera>> = par
        /\ \A g \in FilasUnidas(d, codigo) :
              <<g[1].id_comercio, g[1].id_bandera>> = par
                  => f[1].precio <= g[1].precio}

\* the dictionary built from one fetched row
Resultado(f) ==
    [codigo_barras |-> f[1].id_producto,
     descripcion |-> f[1].descripcion,
     marca |-> f[1].marca,
     precio_lista |-> f[1].precio,
     id_comercio |-> f[1].id_comercio,
     id_bandera |-> f[1].id_bandera,
     comercio_nombre |-> IF f[2].comercio_bandera_nombre # <<>>
                         THEN f[2].comercio_bandera_nombre
                         ELSE f[2].comercio_razon_social,
     comercio_url |-> f[2].comercio_bandera_url]

ParMenor(a, b) == a[1] < b[1] \/ (a[1] = b[1] /\ a[2] < b[2])

\* the pairs in the order of ORDER BY p.id_comercio, p.id_bandera
RECURSIVE ParesEnOrden(_)
ParesEnOrden(pares) ==
    IF pares = {} THEN <<>>
    ELSE LET m == CHOOSE a \in pares : \A b \in pares \ {a} : ParMenor(a, b)
         IN  <<m>> \o ParesEnOrden(pares \ {m})

\* The lists the query may return: one entry per pair, in the order of the
\* pairs; among joined rows of a pair with the same lowest price any one.
buscar_por_codigo_barras(d, codigo) ==
    LET orden == ParesEnOrden(ParesUnidos(d, codigo))
    IN  {[k \in 1..Len(orden) |-> Resultado(sel[orden[k]])] :
            sel \in {t \in [ParesUnidos(d, codigo) -> FilasUnidas(d, codigo)] :
                        \A par \in ParesUnidos(d, codigo) :
                            t[par] \in PrimerasDePar(d, codigo, par)}}

(***************************************************************************)
(* api.buscar_producto: the response built from the list the query         *)
(* returned.                                                               *)
(***************************************************************************)
\* str(n) of a natural number
RECURSIVE StrNat(_)
StrNat(n) ==
    IF n < 10 THEN <<Digits[n + 1]>>
    ELSE StrNat(n \div 10) \o <<Digits[(n % 10) + 1]>>

\* str(n)
PyStr(n) == IF n < 0 THEN <<"-">> \o StrNat(-n) ELSE StrNat(n)

\* f"{x:.0f}" of a price of c hundredths: the nearest integer, a half going
\* to the even one
FormatoSinDecimales(c) ==
    LET q == c \div 100
        r == c % 100
        n == IF r < 50 THEN q
             ELSE IF r > 50 THEN q + 1
             ELSE IF q % 2 = 0 THEN q ELSE q + 1
    IN  IF n = 0 /\ c < 0 THEN <<"-", "0">> ELSE PyStr(n)

NombresCarrefour ==
    {<<"E", "x", "p", "r", "e", "s", "s">>, <<"M", "a", "r", "k", "e", "t">>}

\* one element of 'comercios' in the response
EntradaComercio(resultado) ==
    [id_comercio |-> PyStr(resultado.id_comercio),
     id_bandera |-> PyStr(resultado.id_bandera),
     nombre_comercio |->
         IF resultado.id_comercio = 10 /\ resultado.comercio_nombre \in NombresCarrefour
         THEN <<"C", "a", "r", "r", "e", "f", "o", "u", "r", " ">>
                  \o resultado.comercio_nombre
         ELSE resultado.comercio_nombre,
     precio_producto |-> <<"$">> \o FormatoSinDecimales(resultado.precio_lista)]

\* the status and the body for the list resultados
buscar_producto(resultados, codigo_barras) ==
    IF resultados = <<>>
    THEN [status |-> 404, id_producto |-> codigo_barras, comercios |-> <<>>]
    ELSE [status |-> 200,
          id_producto |-> resultados[1].codigo_barras,
          nombre_producto |-> resultados[1].descripcion,
          marca_producto |-> IF resultados[1].marca = SqlNull THEN <<>>
                             ELSE resultados[1].marca,
          comercios |-> [k \in 1..Len(resultados) |-> EntradaComercio(resultados[k])]]

(***************************************************************************)
(* crear_tablas: CREATE TABLE IF NOT EXISTS comercios, productos; DROP and *)
(* CREATE productos_staging; commit.                                       *)
(***************************************************************************)
crear_tablas(conn, db) ==
    Commit(Ejecutar(conn, [conn.vista EXCEPT !.productos_staging = EmptyBag]), db)

(***************************************************************************)
(* The inputs of the model: the files a per-merchant archive may hold.     *)
(***************************************************************************)
T1 == <<"1">>
T2 == <<"2">>
T9 == <<"9">>
T10 == <<"1", "0">>
T12 == <<"1", "2">>
T15 == <<"1", "5">>
T99 == <<"9", "9">>
TGrande == <<"3", "0", "0", "0", "0", "0", "0", "0", "0", "0">>
Cod123 == <<"1", "2", "3">>
Cod124 == <<"1", "2", "4">>

FilaP(idc, idb, idp, precio, desc, marca) ==
    [id_comercio |-> idc, id_bandera |-> idb, id_producto |-> idp,
     productos_precio_lista |-> precio, productos_descripcion |-> desc,
     productos_marca |-> marca]

FilaC(idc, idb, razon, nombre, url) ==
    [id_comercio |-> idc, id_bandera |-> idb, comercio_razon_social |-> razon,
     comercio_bandera_nombre |-> nombre, comercio_bandera_url |-> url]

CsvDe(filas) == [filas |-> filas, error_en |-> 0]

\* (9,1,"123") at 100.00 and at 90.50
LP_Dup ==
    CsvDe(<<FilaP(T9, T1, Cod123, <<"1", "0", "0", ".", "0", "0">>, <<"A">>, <<"m">>),
            FilaP(T9, T1, Cod123, <<"9", "0", ".", "5", "0">>, <<"B">>, <<>>)>>)

\* (9,1,"123") twice at 90.50 once stored, with two descriptions
LP_Tie ==
    CsvDe(<<FilaP(T9, T1, Cod123, <<"9", "0", ".", "5", "0">>, <<"A">>, <<"m">>),
            FilaP(T9, T1, Cod123, <<"9", "0", ".", "5", "0", "4">>, <<"B">>, <<>>)>>)

\* the same code at (9,2) and at (12,1)
LP_Var ==
    CsvDe(<<FilaP(T9, T2, Cod123, <<"1", "0", "0", ".", "0", "0">>, <<"A">>, <<"m">>),
            FilaP(T12, T1, Cod123, <<"8", "0">>, <<"A">>, <<"m">>)>>)

\* no valid row: a merchant outside the allow-list, a blank description
LP_Rech ==
    CsvDe(<<FilaP(T99, T1, Cod123, <<"5">>, <<"A">>, <<"m">>),
            FilaP(T9, T1, Cod123, <<"9", "0", ".", "5", "0">>, <<" ">>, <<"m">>)>>)

\* a negative price with padded ids, a non-numeric variant, and a merchant
\* outside the allow-list
LP_Mixto ==
    CsvDe(<<FilaP(<<" ", "9">>, <<"1", " ">>, Cod124, <<"-", "1", ".", "5">>, <<"C">>, <<>>),
            FilaP(T9, <<"x">>, Cod124, <<"1">>, <<"C">>, <<>>),
            FilaP(T99, T1, Cod124, <<"1">>, <<"C">>, <<>>)>>)

\* the second row overflows NUMERIC(10,2): the COPY fails; the third row has
\* no product code
LP_ErrCopy ==
    CsvDe(<<FilaP(T12, T1, Cod124, <<"7">>, <<"D">>, <<"m">>),
            FilaP(T12, T1, Cod123,
                  <<"1", "0", "0", "0", "0", "0", "0", "0", "0">>, <<"D">>, <<"m">>),
            FilaP(T12, T1, <<>>, <<"7">>, <<"D">>, <<"m">>)>>)

LP_10 == CsvDe(<<FilaP(T10, T1, Cod123, <<"5", "0">>, <<"A">>, <<>>)>>)

MC_9 == CsvDe(<<FilaC(T9, T1, <<"V">>, <<"v">>, <<"u">>)>>)

MC_9b ==
    CsvDe(<<FilaC(T9, T1, <<"V">>, <<"v">>, <<"w">>),
            FilaC(T9, T2, <<"V">>, <<>>, <<>>)>>)

MC_12 == CsvDe(<<FilaC(T12, T1, <<"J">>, <<"j">>, <<>>)>>)

\* the second row's variant id is no 32-bit integer: the INSERT fails
MC_ErrBd ==
    CsvDe(<<FilaC(T9, T1, <<"V">>, <<"v">>, <<"u">>),
            FilaC(T9, TGrande, <<"V">>, <<"v">>, <<"u">>)>>)

\* reading the second row raises
MC_ErrLectura ==
    [filas |-> <<FilaC(T12, T1, <<"J">>, <<"j">>, <<>>),
                 FilaC(T12, T2, <<"J">>, <<"k">>, <<>>)>>, error_en |-> 2]

\* every row is skipped
MC_Omitidas ==
    CsvDe(<<FilaC(T99, T1, <<"X">>, <<"x">>, <<>>),
            FilaC(T15, <<" ">>, <<"Q">>, <<"q">>, <<>>)>>)

\* A per-merchant archive: the id in its file name (<<>>: the name does not
\* match comercio-sepa-<digits>), whether it ends in .zip, whether opening or
\* extracting it raises, and its comercio.csv and productos.csv (<<>> when
\* the archive holds none).
ZipDe(id, comercio, productos) ==
    [es_zip |-> TRUE, id_nombre |-> id, corrupto |-> FALSE,
     comercio |-> comercio, productos |-> productos]

Candidatos ==
    << ZipDe(T9, <<MC_9>>, <<LP_Dup>>),
       ZipDe(T9, <<MC_9>>, <<LP_Tie>>),
       ZipDe(T12, <<MC_12>>, <<LP_Var>>),
       ZipDe(T9, <<MC_9b>>, <<LP_Mixto>>),
       ZipDe(T9, <<MC_ErrBd>>, <<LP_Rech>>),
       ZipDe(T12, <<MC_ErrLectura>>, <<LP_ErrCopy>>),
       [ZipDe(T12, <<MC_12>>, <<LP_Var>>) EXCEPT !.corrupto = TRUE],
       ZipDe(T99, <<MC_9>>, <<LP_Dup>>),
       ZipDe(T10, <<>>, <<LP_10>>),
       ZipDe(T15, <<MC_Omitidas>>, <<>>) >>

\* the contents of the dated folder: up to MaxZips archives, in the order
\* os.listdir returns them
Carpetas ==
    UNION {[1..n -> 1..Len(Candidatos)] : n \in 1..MaxZips}

(***************************************************************************)
(* State.                                                                  *)
(***************************************************************************)
VARIABLES
    entrada,          \* the argument of a function applied on its own
    salida,           \* <<its result>>, <<>> before the call
    zips,             \* the outer archive: indexes into Candidatos
    carpeta,          \* the outer archive holds a dated folder ("fecha") or
                      \* its entries lie at its root ("raiz")
    principal,        \* the outer archive at this run: "ok", "ilegible"
                      \* (extraction raises) or "ausente" (no such file)
    runs,             \* runs of procesar_zip_sepa started
    pc,               \* position of the current run
    causa,            \* why the run ended in FAILED
    db,               \* committed tables
    conn,             \* the run's connection [abierta, estado, vista]
    zips_comercios,   \* positions in zips of the allowed archives
    i,                \* loop index of phases 2 and 3
    total_productos, total_errores, total_comercios,
    temp_dir,         \* the sepa_import_ directory exists
    temp_extract_dir, \* the sepa_extract_ directory exists
    extraido,         \* entries of temp_extract_dir: <<position in zips, name>>
    ajenos,           \* the system temp directory still holds other entries
    fases,            \* phases executed by the current run, in order
    reg2, reg3,       \* what phases 2 and 3 did for each archive so far
    staging_previo,   \* productos_staging as compaction found it
    final_previo      \* <<the tables>> left by the run that completed just before
                      \* the current one, else <<>>

vars ==
    <<entrada, salida, zips, carpeta, principal, runs, pc, causa, db, conn, zips_comercios, i,
      total_productos, total_errores, total_comercios, temp_dir,
      temp_extract_dir, extraido, ajenos, fases, reg2, reg3, staging_previo,
      final_previo>>

Archivo(n) == Candidatos[zips[n]]

ConnCerrada == [abierta |-> FALSE, estado |-> "idle", vista |-> TablasVacias]

\* no run of procesar_zip_sepa has started, the database is empty
Reposo ==
    /\ principal = "ok"
    /\ runs = 0
    /\ causa = "none"
    /\ db = TablasVacias
    /\ conn = ConnCerrada
    /\ zips_comercios = <<>>
    /\ i = 0
    /\ total_productos = 0
    /\ total_errores = 0
    /\ total_comercios = 0
    /\ temp_dir = FALSE
    /\ temp_extract_dir = FALSE
    /\ extraido = {}
    /\ ajenos = TRUE
    /\ fases = <<>>
    /\ reg2 = <<>>
    /\ reg3 = <<>>
    /\ staging_previo = EmptyBag
    /\ final_previo = <<>>

Init ==
    /\ entrada = <<>>
    /\ salida = <<>>
    /\ zips \in Carpetas
    /\ carpeta \in {"fecha", "raiz"}
    /\ pc = "idle"
    /\ Reposo

(***************************************************************************)
(* procesar_zip_sepa, one action per step.                                 *)
(***************************************************************************)
Principales == {"ok", "ilegible", "ausente"}

\* A run starts: the checks of the outer archive's path.
Iniciar ==
    /\ pc \in {"idle", "DONE", "FAILED"}
    /\ runs < MaxRuns
    /\ runs' = runs + 1
    /\ \E p \in Principales :
        /\ principal' = p
        /\ IF p = "ausente"
           THEN pc' = "FAILED" /\ causa' = "setup"
           ELSE pc' = "conectar" /\ causa' = "none"
    /\ final_previo' =
           IF pc = "DONE"
           THEN <<db>>
           ELSE <<>>
    /\ zips_comercios' = <<>>
    /\ i' = 0
    /\ total_productos' = 0
    /\ total_errores' = 0
    /\ total_comercios' = 0
    /\ temp_dir' = FALSE
    /\ temp_extract_dir' = FALSE
    /\ extraido' = {}
    /\ fases' = <<>>
    /\ reg2' = <<>>
    /\ reg3' = <<>>
    /\ staging_previo' = EmptyBag
    /\ UNCHANGED <<entrada, salida, zips, carpeta, db, conn, ajenos>>

\* conectar_postgresql
Conectar ==
    /\ pc = "conectar"
    /\ conn' = [abierta |-> TRUE, estado |-> "idle", vista |-> db]
    /\ pc' = "fase1"
    /\ UNCHANGED <<entrada, salida, zips, carpeta, principal, runs, causa, db, zips_comercios, i,
                   total_productos, total_errores, total_comercios, temp_dir,
                   temp_extract_dir, extraido, ajenos, fases, reg2, reg3,
                   staging_previo, final_previo>>

\* the reset without TRUNCATE TABLE productos
limpiar_tablas_sin_productos(c, d) ==
    Commit(Ejecutar(c, [c.vista EXCEPT !.comercios = {},
                                       !.productos_staging = EmptyBag]), d)

\* TRUNCATE productos CASCADE, comercios CASCADE, productos_staging; commit
limpiar_tablas(c, d) ==
    Commit(Ejecutar(c, [c.vista EXCEPT !.productos = EmptyBag,
                                       !.comercios = {},
                                       !.productos_staging = EmptyBag]), d)

\* [FASE 1]
Fase1 ==
    /\ pc = "fase1"
    /\ LET a == crear_tablas(conn, db)
           b == limpiar_tablas(a.conn, a.db)
       IN  conn' = b.conn /\ db' = b.db
    /\ fases' = Append(fases, "truncate")
    /\ pc' = "descomprimir"
    /\ UNCHANGED <<entrada, salida, zips, carpeta, principal, runs, causa, zips_comercios, i,
                   total_productos, total_errores, total_comercios, temp_dir,
                   temp_extract_dir, extraido, ajenos, reg2, reg3,
                   staging_previo, final_previo>>

\* descomprimir_zip_principal and the test of its result
Descomprimir ==
    /\ pc = "descomprimir"
    /\ temp_dir' = TRUE
    /\ IF principal = "ilegible"
       THEN pc' = "FAILED" /\ causa' = "setup" /\ conn' = ConnCerrada
       ELSE pc' = "listar" /\ UNCHANGED <<causa, conn>>
    /\ UNCHANGED <<entrada, salida, zips, carpeta, principal, runs, db, zips_comercios, i,
                   total_productos, total_errores, total_comercios,
                   temp_extract_dir, extraido, ajenos, fases, reg2, reg3,
                   staging_previo, final_previo>>

\* item.endswith('.zip'), comercio-sepa-(\d+) matches, id in the allow-list
ZipPermitido(z) ==
    z.es_zip /\ z.id_nombre # <<>> /\ Permitido(PyInt(z.id_nombre))

ZipsPermitidos(zs) ==
    LET ok(n) == ZipPermitido(Candidatos[zs[n]])
    IN  SelectSeq([n \in 1..Len(zs) |-> n], ok)

\* the listing of the dated folder and the creation of the scratch directory
Listar ==
    /\ pc = "listar"
    /\ zips_comercios' = ZipsPermitidos(zips)
    /\ temp_extract_dir' = TRUE
    /\ i' = 1
    /\ pc' = "fase2"
    /\ UNCHANGED <<entrada, salida, zips, carpeta, principal, runs, causa, db, conn, total_productos,
                   total_errores, total_comercios, temp_dir, extraido, ajenos,
                   fases, reg2, reg3, staging_previo, final_previo>>

\* extractall into the scratch directory as the last archive left it
ExtraerSinVaciar(n) ==
    LET z == Archivo(n)
    IN  IF z.corrupto THEN extraido
        ELSE extraido
             \cup {<<n, "comercio.csv">> : x \in {1 .. Len(z.comercio)} \ {1 .. 0}}
             \cup {<<n, "productos.csv">> : x \in {1 .. Len(z.productos)} \ {1 .. 0}}

\* what extractall leaves in the emptied scratch directory
Extraer(n) ==
    LET z == Archivo(n)
    IN  IF z.corrupto THEN {}
        ELSE {<<n, "comercio.csv">> : x \in {1 .. Len(z.comercio)} \ {1 .. 0}}
             \cup {<<n, "productos.csv">> : x \in {1 .. Len(z.productos)} \ {1 .. 0}}

\* the file os.walk finds under the given name: <<>> or <<file>>
Buscar(dir, nombre) ==
    IF \E e \in dir : e[2] = nombre
    THEN LET e == CHOOSE x \in dir : x[2] = nombre
         IN  IF nombre = "comercio.csv" THEN Archivo(e[1]).comercio
             ELSE Archivo(e[1]).productos
    ELSE <<>>

\* [FASE 2], one iteration of the loop
Fase2Comercio ==
    /\ pc = "fase2"
    /\ i <= Len(zips_comercios)
    /\ LET n == zips_comercios[i]
           dir == Extraer(n)
           csv == Buscar(dir, "comercio.csv")
       IN  /\ extraido' = dir
           /\ IF Archivo(n).corrupto
              THEN /\ reg2' = Append(reg2, [pos |-> n, resultado |-> "corrupto",
                                           contador |-> 0])
                   /\ UNCHANGED <<conn, db>>
              ELSE IF csv = <<>>
              THEN /\ reg2' = Append(reg2, [pos |-> n, resultado |-> "sin_archivo",
                                           contador |-> 0])
                   /\ UNCHANGED <<conn, db>>
              ELSE LET r == importar_comercios_desde_csv(conn, db, csv[1])
                   IN  /\ conn' = r.conn
                       /\ db' = r.db
                       /\ reg2' = Append(reg2, [pos |-> n, resultado |-> r.resultado,
                                               contador |-> r.contador])
    /\ i' = i + 1
    /\ UNCHANGED <<entrada, salida, zips, carpeta, principal, runs, pc, causa, zips_comercios,
                   total_productos, total_errores, total_comercios, temp_dir,
                   temp_extract_dir, ajenos, fases, reg3, staging_previo,
                   final_previo>>

\* [FASE 2] ended without conn.commit()
Fase2FinSinCommit ==
    /\ pc = "fase2"
    /\ i > Len(zips_comercios)
    /\ fases' = Append(fases, "merchants")
    /\ i' = 1
    /\ pc' = "fase3"
    /\ UNCHANGED <<entrada, salida, zips, carpeta, principal, runs, causa, db,
                   conn, zips_comercios, total_productos, total_errores,
                   total_comercios, temp_dir, temp_extract_dir, extraido,
                   ajenos, reg2, reg3, staging_previo, final_previo>>

\* the commit that ends [FASE 2]
Fase2Fin ==
    /\ pc = "fase2"
    /\ i > Len(zips_comercios)
    /\ LET c == Commit(conn, db)
       IN  conn' = c.conn /\ db' = c.db
    /\ fases' = Append(fases, "merchants")
    /\ i' = 1
    /\ pc' = "fase3"
    /\ UNCHANGED <<entrada, salida, zips, carpeta, principal, runs, causa, zips_comercios,
                   total_productos, total_errores, total_comercios, temp_dir,
                   temp_extract_dir, extraido, ajenos, reg2, reg3,
                   staging_previo, final_previo>>

\* [FASE 3], one iteration of the loop
Fase3Productos ==
    /\ pc = "fase3"
    /\ i <= Len(zips_comercios)
    /\ LET n == zips_comercios[i]
           dir == Extraer(n)
           csv == Buscar(dir, "productos.csv")
       IN  /\ extraido' = dir
           /\ IF Archivo(n).corrupto \/ csv = <<>>
              THEN /\ reg3' = Append(reg3,
                          [pos |-> n,
                           resultado |-> IF Archivo(n).corrupto THEN "corrupto"
                                         ELSE "sin_archivo",
                           filas |-> 0, errores |-> 0])
                   /\ UNCHANGED <<conn, db, total_productos, total_errores,
                                  total_comercios>>
              ELSE LET r == importar_productos_desde_csv(conn, db, csv[1])
                   IN  /\ conn' = r.conn
                       /\ db' = r.db
                       /\ total_productos' = total_productos + r.filas
                       /\ total_errores' = total_errores + r.errores
                       /\ total_comercios' = total_comercios + 1
                       /\ reg3' = Append(reg3, [pos |-> n, resultado |-> r.resultado,
                                               filas |-> r.filas,
                                               errores |-> r.errores])
    /\ i' = i + 1
    /\ UNCHANGED <<entrada, salida, zips, carpeta, principal, runs, pc, causa, zips_comercios, temp_dir,
                   temp_extract_dir, ajenos, fases, reg2, staging_previo,
                   final_previo>>

\* the loop of [FASE 3] left before its last archive
Fase3FinAnticipado ==
    /\ pc = "fase3"
    /\ i >= Len(zips_comercios)
    /\ fases' = Append(fases, "stage")
    /\ pc' = "fase4"
    /\ UNCHANGED <<entrada, salida, zips, carpeta, principal, runs, causa, db,
                   conn, zips_comercios, i, total_productos, total_errores,
                   total_comercios, temp_dir, temp_extract_dir, extraido,
                   ajenos, reg2, reg3, staging_previo, final_previo>>

\* the end of the loop of [FASE 3]
Fase3Fin ==
    /\ pc = "fase3"
    /\ i > Len(zips_comercios)
    /\ fases' = Append(fases, "stage")
    /\ pc' = "fase4"
    /\ UNCHANGED <<entrada, salida, zips, carpeta, principal, runs, causa, db, conn, zips_comercios, i,
                   total_productos, total_errores, total_comercios, temp_dir,
                   temp_extract_dir, extraido, ajenos, reg2, reg3,
                   staging_previo, final_previo>>

\* [FASE 4]
Fase4Mover ==
    /\ pc = "fase4"
    /\ \E sel \in SeleccionesDistinctOn(conn.vista.productos_staging) :
          LET r == mover_datos_staging_a_final(conn, db, sel)
          IN  conn' = r.conn /\ db' = r.db
    /\ staging_previo' = conn.vista.productos_staging
    /\ fases' = Append(fases, "compact")
    /\ pc' = "fase5"
    /\ UNCHANGED <<entrada, salida, zips, carpeta, principal, runs, causa, zips_comercios, i,
                   total_productos, total_errores, total_comercios, temp_dir,
                   temp_extract_dir, extraido, ajenos, reg2, reg3,
                   final_previo>>

\* [FASE 5]
Fase5Indices ==
    /\ pc = "fase5"
    /\ LET c == crear_indices_productos(conn, db)
       IN  conn' = c.conn /\ db' = c.db
    /\ fases' = Append(fases, "index")
    /\ pc' = "limpieza"
    /\ UNCHANGED <<entrada, salida, zips, carpeta, principal, runs, causa, zips_comercios, i,
                   total_productos, total_errores, total_comercios, temp_dir,
                   temp_extract_dir, extraido, ajenos, reg2, reg3,
                   staging_previo, final_previo>>

\* shutil.rmtree(temp_extract_dir); shutil.rmtree(os.path.dirname(carpeta_fecha)).
\* With a dated folder the second call removes temp_dir.  Without one
\* carpeta_fecha is temp_dir itself and the call is made on the system
\* temporary directory: it removes every entry of it, or raises at the
\* first entry it may not remove.
Limpieza ==
    /\ pc = "limpieza"
    /\ temp_extract_dir' = FALSE
    /\ extraido' = {}
    /\ \/ /\ carpeta = "fecha"
          /\ temp_dir' = FALSE
          /\ pc' = "resumen"
          /\ UNCHANGED <<ajenos, causa, conn>>
       \/ /\ carpeta = "raiz"
          /\ temp_dir' = FALSE
          /\ ajenos' = FALSE
          /\ pc' = "resumen"
          /\ UNCHANGED <<causa, conn>>
       \/ /\ carpeta = "raiz"
          /\ temp_dir' \in BOOLEAN
          /\ pc' = "FAILED"
          /\ causa' = "limpieza"
          /\ conn' = ConnCerrada
          /\ UNCHANGED ajenos
    /\ UNCHANGED <<entrada, salida, zips, carpeta, principal, runs, db, zips_comercios, i,
                   total_productos, total_errores, total_comercios, fases,
                   reg2, reg3, staging_previo, final_previo>>

\* the final counts, the summary, conn.close()
Resumen ==
    /\ pc = "resumen"
    /\ fases' = Append(fases, "report")
    /\ conn' = ConnCerrada
    /\ pc' = "DONE"
    /\ UNCHANGED <<entrada, salida, zips, carpeta, principal, runs, causa, db, zips_comercios, i,
                   total_productos, total_errores, total_comercios, temp_dir,
                   temp_extract_dir, extraido, ajenos, reg2, reg3,
                   staging_previo, final_previo>>

\* The database is unreachable at the connection, or the connection is lost
\* later: the next database call raises psycopg2.Error, which leaves
\* procesar_zip_sepa.  Nothing uncommitted survives.
FalloBaseDatos ==
    /\ pc \in {"conectar", "fase1", "fase2", "fase3", "fase4", "fase5", "resumen"}
    /\ conn' = ConnCerrada
    /\ pc' = "FAILED"
    /\ causa' = "db"
    /\ UNCHANGED <<entrada, salida, zips, carpeta, principal, runs, db, zips_comercios, i,
                   total_productos, total_errores, total_comercios, temp_dir,
                   temp_extract_dir, extraido, ajenos, fases, reg2, reg3,
                   staging_previo, final_previo>>

\* the steps of the program
Paso ==
    \/ Conectar
    \/ Fase1
    \/ Descomprimir
    \/ Listar
    \/ Fase2Comercio
    \/ Fase2Fin
    \/ Fase3Productos
    \/ Fase3Fin
    \/ Fase4Mover
    \/ Fase5Indices
    \/ Limpieza
    \/ Resumen

Next ==
    \/ Iniciar
    \/ Paso
    \/ FalloBaseDatos

Spec == Init /\ [][Next]_vars

\* the steps outside the two loops over zips_comercios
PasoLineal ==
    \/ Conectar
    \/ Fase1
    \/ Descomprimir
    \/ Listar
    \/ Fase2Fin
    \/ Fase3Fin
    \/ Fase4Mover
    \/ Fase5Indices
    \/ Limpieza
    \/ Resumen

\* One iteration of `for i, zip_comercio in enumerate(zips_comercios, 1)` as
\* the loop counter sees it.  A step of Next that satisfies it is a step of
\* Fase2Comercio or of Fase3Productos, and it is enabled exactly when one of
\* them is.
Iteracion ==
    /\ pc \in {"fase2", "fase3"}
    /\ i <= Len(zips_comercios)
    /\ i' = i + 1
    /\ pc' = pc

\* A started run takes its next step: the program is sequential and no step
\* of it waits.
FairSpec == Spec /\ WF_vars(PasoLineal) /\ WF_<<pc, i>>(Iteracion)

(***************************************************************************)
(* scripts/descargar_e_importar.main around one run.  The way the call of  *)
(* procesar_zip_sepa ended and the exit status of the process are functions *)
(* of the state the run ended in.                                          *)
(***************************************************************************)
\* procesar_zip_sepa ended by `return` (also after printing "Error: ...") or
\* by an exception that left it
Terminacion ==
    IF pc = "DONE" THEN "return"
    ELSE IF pc = "FAILED" /\ causa = "setup" THEN "return"
    ELSE IF pc = "FAILED" THEN "raise"
    ELSE "running"

\* sys.exit status: 1 when the downloaded file does not exist (main's own
\* test before the call) or the call raised, 0 when the call returned
main ==
    IF pc = "FAILED" /\ principal = "ausente" THEN 1
    ELSE IF Terminacion = "raise" THEN 1
    ELSE 0

(***************************************************************************)
(* preparar_csv_para_copy applied on its own to every listing file of up   *)
(* to MaxFilas rows over these field values.                               *)
(***************************************************************************)
ValoresProducto == {<<" ">>, Cod123}
ValoresComercio == {<<>>, <<"x">>, T99, <<" ", "9">>}
ValoresBandera == {<<>>, T1}
ValoresPrecio == {<<"1", ",", "5">>, <<"1", ".", "5">>}
ValoresDescripcion == {<<" ">>, <<"A">>}

FilasDePrueba ==
    {FilaP(c, b, p, pr, d, <<>>) :
        c \in ValoresComercio, b \in ValoresBandera, p \in ValoresProducto,
        pr \in ValoresPrecio, d \in ValoresDescripcion}

ListadosDePrueba ==
    {CsvDe(f) : f \in UNION {[1..n -> FilasDePrueba] : n \in 1..MaxFilas}}

InitFilas ==
    /\ entrada \in ListadosDePrueba
    /\ salida = <<>>
    /\ zips = <<1>>
    /\ carpeta = "fecha"
    /\ pc = "funcion"
    /\ Reposo

PrepararCsv ==
    /\ pc = "funcion"
    /\ salida' = <<preparar_csv_para_copy(entrada)>>
    /\ pc' = "hecho"
    /\ UNCHANGED <<entrada, zips, carpeta, principal, runs, causa, db, conn,
                   zips_comercios, i, total_productos, total_errores,
                   total_comercios, temp_dir, temp_extract_dir, extraido,
                   ajenos, fases, reg2, reg3, staging_previo, final_previo>>

NextFilas == PrepararCsv

SpecFilas == InitFilas /\ [][NextFilas]_vars

(***************************************************************************)
(* importar_comercios_desde_csv applied on its own, twice, over a fresh    *)
(* connection to empty tables, to every metadata file of up to MaxFilas    *)
(* rows over these values.                                                 *)
(***************************************************************************)
\* (id_comercio, id_bandera) of a metadata row
ParesDePrueba ==
    { <<<<>>, T1>>, <<<<"x">>, T1>>, <<T99, T1>>, <<T9, <<" ">>>>,
      <<T9, <<"x">>>>, <<T9, T1>>, <<<<" ", "9">>, T1>>, <<T9, T2>>,
      <<T12, T1>>, <<T9, TGrande>> }

\* (comercio_razon_social, comercio_bandera_nombre, comercio_bandera_url)
CamposDePrueba ==
    { <<<<"V">>, <<"v">>, <<"u">>>>, <<<<"W">>, <<"v">>, <<"u">>>>,
      <<<<"V">>, <<>>, <<"u">>>>, <<<<"V">>, <<"v">>, <<"w">>>> }

FilasCDePrueba ==
    {FilaC(par[1], par[2], c[1], c[2], c[3]) :
        par \in ParesDePrueba, c \in CamposDePrueba}

\* the files read to their end, and those whose last row cannot be read
MetadatosDePrueba ==
    {[filas |-> f, error_en |-> e] :
        f \in UNION {[1..n -> FilasCDePrueba] : n \in 1..MaxFilas},
        e \in {0, MaxFilas}}

\* a connection just opened on empty tables
ConnNueva == [abierta |-> TRUE, estado |-> "idle", vista |-> TablasVacias]

InitComercios ==
    /\ entrada \in MetadatosDePrueba
    /\ salida = <<>>
    /\ zips = <<1>>
    /\ carpeta = "fecha"
    /\ pc = "comercios"
    /\ principal = "ok"
    /\ runs = 0
    /\ causa = "none"
    /\ db = TablasVacias
    /\ conn = ConnNueva
    /\ zips_comercios = <<>>
    /\ i = 0
    /\ total_productos = 0
    /\ total_errores = 0
    /\ total_comercios = 0
    /\ temp_dir = FALSE
    /\ temp_extract_dir = FALSE
    /\ extraido = {}
    /\ ajenos = TRUE
    /\ fases = <<>>
    /\ reg2 = <<>>
    /\ reg3 = <<>>
    /\ staging_previo = EmptyBag
    /\ final_previo = <<>>

\* one call of importar_comercios_desde_csv(conn, entrada)
ImportarComercios ==
    /\ pc \in {"comercios", "una_vez"}
    /\ LET r == importar_comercios_desde_csv(conn, db, entrada)
       IN  /\ conn' = r.conn
           /\ db' = r.db
           /\ salida' = Append(salida, r)
    /\ pc' = IF pc = "comercios" THEN "una_vez" ELSE "dos_veces"
    /\ UNCHANGED <<entrada, zips, carpeta, principal, runs, causa,
                   zips_comercios, i, total_productos, total_errores,
                   total_comercios, temp_dir, temp_extract_dir, extraido,
                   ajenos, fases, reg2, reg3, staging_previo, final_previo>>

NextComercios == ImportarComercios

SpecComercios == InitComercios /\ [][NextComercios]_vars

(***************************************************************************)
(* api.requiere_api_key applied to one request.  A value that may be None  *)
(* is <<>> (None) or <<text>>.                                             *)
(***************************************************************************)
\* s.strip(chars)
RECURSIVE LStripChars(_, _)
LStripChars(s, chars) ==
    IF s # <<>> /\ Head(s) \in chars THEN LStripChars(Tail(s), chars) ELSE s

RECURSIVE RStripChars(_, _)
RStripChars(s, chars) ==
    IF s # <<>> /\ s[Len(s)] \in chars
    THEN RStripChars(SubSeq(s, 1, Len(s) - 1), chars)
    ELSE s

StripChars(s, chars) == RStripChars(LStripChars(s, chars), chars)

\* settings.API_KEY for the value of the environment variable
API_KEY(api_key_raw) ==
    IF api_key_raw = <<>> \/ api_key_raw[1] = <<>> THEN <<>>
    ELSE <<StripChars(api_key_raw[1], {"'", "\""})>>

\* s.startswith(p)
StartsWith(s, p) == Len(s) >= Len(p) /\ SubSeq(s, 1, Len(p)) = p

\* s.split(' ')
RECURSIVE Split(_)
Split(s) ==
    IF \E k \in 1..Len(s) : s[k] = " "
    THEN LET k == CHOOSE j \in 1..Len(s) :
                      s[j] = " " /\ \A m \in 1..(j - 1) : s[m] # " "
         IN  <<SubSeq(s, 1, k - 1)>> \o Split(SubSeq(s, k + 1, Len(s)))
    ELSE <<s>>

Bearer == <<"B", "e", "a", "r", "e", "r", " ">>

\* the comparison made only when a key is configured:
\* `if API_KEY and token != API_KEY`
requiere_api_key_sin_clave(auth_header, api_key) ==
    IF auth_header = <<>> \/ auth_header[1] = <<>> THEN "401"
    ELSE IF StartsWith(auth_header[1], Bearer) /\ Len(Split(auth_header[1])) < 2
    THEN "401"
    ELSE LET token == IF StartsWith(auth_header[1], Bearer)
                      THEN Split(auth_header[1])[2]
                      ELSE auth_header[1]
         IN  IF api_key # <<>> /\ <<token>> # api_key THEN "403" ELSE "handler"

\* The decorator for the Authorization header and the configured key:
\* "401", "403", or "handler" when the wrapped function is executed.
requiere_api_key(auth_header, api_key) ==
    IF auth_header = <<>> \/ auth_header[1] = <<>> THEN "401"
    ELSE IF StartsWith(auth_header[1], Bearer) /\ Len(Split(auth_header[1])) < 2
    THEN "401"
    ELSE LET token == IF StartsWith(auth_header[1], Bearer)
                      THEN Split(auth_header[1])[2]
                      ELSE auth_header[1]
         IN  IF <<token>> # api_key THEN "403" ELSE "handler"

\* the Authorization headers and the values of the environment variable tried
Cabeceras ==
    { <<>>, <<<<>>>>, <<<<"k">>>>, <<<<"x">>>>, <<Bearer \o <<"k">>>>,
      <<Bearer \o <<"x">>>>, <<Bearer>>, <<<<"B", "e", "a", "r", "e", "r">>>>,
      <<Bearer \o <<" ", "k">>>>, <<Bearer \o <<"k", " ", "x">>>>,
      <<<<"b", "e", "a", "r", "e", "r", " ", "k">>>>,
      <<<<"B", "a", "s", "i", "c", " ", "k">>>>, <<<<"N", "o", "n", "e">>>> }

ClavesConfiguradas ==
    { <<>>, <<<<>>>>, <<<<"k">>>>, <<<<"'", "k", "'">>>>, <<<<"'", "'">>>> }

InitApi ==
    /\ entrada \in [authorization : Cabeceras, api_key_raw : ClavesConfiguradas]
    /\ salida = <<>>
    /\ zips = <<1>>
    /\ carpeta = "fecha"
    /\ pc = "solicitud"
    /\ Reposo

\* one request to a protected endpoint
Solicitud ==
    /\ pc = "solicitud"
    /\ salida' = <<requiere_api_key(entrada.authorization, API_KEY(entrada.api_key_raw))>>
    /\ pc' = "respondida"
    /\ UNCHANGED <<entrada, zips, carpeta, principal, runs, causa, db, conn,
                   zips_comercios, i, total_productos, total_errores,
                   total_comercios, temp_dir, temp_extract_dir, extraido,
                   ajenos, fases, reg2, reg3, staging_previo, final_previo>>

NextApi == Solicitud

SpecApi == InitApi /\ [][NextApi]_vars

(***************************************************************************)
(* scripts/descargar_sepa.descargar_archivo_sepa at one instant.  The      *)
(* instant is given by the day of the week and the hour in UTC; days are   *)
(* numbered as datetime.weekday() numbers them: 0 Monday ... 6 Sunday.     *)
(***************************************************************************)
\* the file name at the end of each URL of URLS_SEPA
URLS_SEPA ==
    [k \in 0..6 |->
        CASE k = 0 -> "sepa_domingo.zip"
          [] k = 1 -> "sepa_martes.zip"
          [] k = 2 -> "sepa_martes.zip"
          [] k = 3 -> "sepa_miercoles.zip"
          [] k = 4 -> "sepa_jueves.zip"
          [] k = 5 -> "sepa_viernes.zip"
          [] k = 6 -> "sepa_sabado.zip"]

NOMBRES_DIAS ==
    [k \in 0..6 |->
        CASE k = 0 -> "Domingo"
          [] k = 1 -> "Lunes"
          [] k = 2 -> "Martes"
          [] k = 3 -> "Miercoles"
          [] k = 4 -> "Jueves"
          [] k = 5 -> "Viernes"
          [] k = 6 -> "Sabado"]

\* the weekday of datetime.now(tz) for America/Argentina/Buenos_Aires, three
\* hours behind UTC
WeekdayArgentina(instante) ==
    IF instante.hora_utc < 3 THEN (instante.dia_utc + 6) % 7 ELSE instante.dia_utc

\* fecha_argentina.weekday()
obtener_dia_argentina(instante) == WeekdayArgentina(instante)

\* the day name printed, the file requested, and the value returned when
\* the download succeeds (exito) or fails
descargar_archivo_sepa(instante, exito) ==
    LET dia_semana == obtener_dia_argentina(instante)
    IN  [dia_semana |-> dia_semana,
         nombre_dia |-> NOMBRES_DIAS[dia_semana],
         url |-> URLS_SEPA[dia_semana],
         retorno |-> exito]

InitDescarga ==
    /\ entrada \in [dia_utc : 0..6, hora_utc : 0..23]
    /\ salida = <<>>
    /\ zips = <<1>>
    /\ carpeta = "fecha"
    /\ pc = "descarga"
    /\ Reposo

Descargar ==
    /\ pc = "descarga"
    /\ \E exito \in BOOLEAN :
          salida' = <<descargar_archivo_sepa(entrada, exito)>>
    /\ pc' = "descargado"
    /\ UNCHANGED <<entrada, zips, carpeta, principal, runs, causa, db, conn,
                   zips_comercios, i, total_productos, total_errores,
                   total_comercios, temp_dir, temp_extract_dir, extraido,
                   ajenos, fases, reg2, reg3, staging_previo, final_previo>>

NextDescarga == Descargar

SpecDescarga == InitDescarga /\ [][NextDescarga]_vars

(***************************************************************************)
(* Properties.                                                             *)
(***************************************************************************)
Rango(seq) == {seq[k] : k \in 1..Len(seq)}

\* the current run has executed the compaction
Compactado == "compact" \in Rango(fases)

PreciosDeClave(bolsa, k) ==
    {r.precio : r \in {x \in BagToSet(bolsa) : ClaveProducto(x) = k}}

Minimo(S) == CHOOSE p \in S : \A q \in S : p <= q

\* C1: after mover_datos_staging_a_final, every (id_comercio, id_bandera,
\* id_producto) that was staged has exactly one row in productos, at the
\* lowest price staged for it; keys that differ in merchant or variant keep
\* their own rows.
C1_UnaFilaPrecioMinimo ==
    Compactado =>
        \A k \in Claves(staging_previo) :
            LET filas == {r \in BagToSet(db.productos) : ClaveProducto(r) = k}
            IN  /\ Cardinality(filas) = 1
                /\ \A r \in filas :
                      /\ CopiesIn(r, db.productos) = 1
                      /\ r.precio = Minimo(PreciosDeClave(staging_previo, k))

\* a key staged at two prices, and the same code staged for another
\* merchant or variant, have been compacted
C1_Testigo ==
    /\ Compactado
    /\ \E r, q \in BagToSet(staging_previo) :
          ClaveProducto(r) = ClaveProducto(q) /\ r.precio < q.precio
    /\ \E r, q \in BagToSet(staging_previo) :
          r.id_producto = q.id_producto /\ ClaveProducto(r) # ClaveProducto(q)

\* C2: after compaction every row of productos references a row of
\* comercios.
C2_ClaveForanea ==
    Compactado =>
        \A r \in BagToSet(db.productos) :
            \E c \in db.comercios :
                c.id_comercio = r.id_comercio /\ c.id_bandera = r.id_bandera

FilasDeTablas(t) == BagToSet(t.productos_staging) \cup BagToSet(t.productos)

\* C3: no row of productos_staging or productos, committed or in the open
\* transaction, has an id_comercio outside COMERCIOS_PERMITIDOS.
C3_SoloPermitidos ==
    \A r \in FilasDeTablas(db) \cup FilasDeTablas(conn.vista) :
        r.id_comercio \in COMERCIOS_PERMITIDOS

\* the listing rows of the archive at position n of zips
FilasListado(n) ==
    IF Archivo(n).productos = <<>> THEN {}
    ELSE Rango(Archivo(n).productos[1].filas)

\* rows are staged while the folder holds an archive named after a merchant
\* outside the allow-list and a processed listing holds a row of such a
\* merchant
C3_Testigo ==
    /\ pc \in {"fase3", "fase4"}
    /\ db.productos_staging # EmptyBag
    /\ \E n \in 1..Len(zips) :
          /\ Archivo(n).id_nombre # <<>>
          /\ PyInt(Archivo(n).id_nombre).val \notin COMERCIOS_PERMITIDOS
    /\ \E k \in 1..Len(reg3) :
          \E f \in FilasListado(reg3[k].pos) :
              /\ PyInt(f.id_comercio).ok
              /\ PyInt(f.id_comercio).val \notin COMERCIOS_PERMITIDOS

\* C4: a run that completes right after a completed run on the same archive
\* leaves the same rows in productos.
C4_Idempotente ==
    (pc = "DONE" /\ final_previo # <<>>) => db.productos = final_previo[1].productos

\* The checks of a listing row in the documented order, each with the
\* counter it feeds.
Controles ==
    <<"sin_id_producto", "otros", "id_comercio_no_permitido", "sin_id_bandera",
      "sin_precio", "sin_descripcion">>

FallaControl(n, fila) ==
    CASE n = 1 -> Strip(fila.id_producto) = <<>>
      [] n = 2 -> Strip(fila.id_comercio) = <<>> \/ ~PyInt(fila.id_comercio).ok
      [] n = 3 -> \/ PyInt(fila.id_comercio).grande
                  \/ PyInt(fila.id_comercio).val \notin COMERCIOS_PERMITIDOS
      [] n = 4 -> Strip(fila.id_bandera) = <<>> \/ ~PyInt(fila.id_bandera).ok
      [] n = 5 -> \/ Strip(fila.productos_precio_lista) = <<>>
                  \/ ~PyFloat(fila.productos_precio_lista).ok
      [] n = 6 -> Strip(fila.productos_descripcion) = <<>>

\* the first check the row fails, 0 when it passes all six
PrimerFallo(fila) ==
    IF \E n \in 1..6 : FallaControl(n, fila)
    THEN CHOOSE n \in 1..6 :
             FallaControl(n, fila) /\ \A m \in 1..(n - 1) : ~FallaControl(m, fila)
    ELSE 0

FilasConFallo(filas, n) == {k \in 1..Len(filas) : PrimerFallo(filas[k]) = n}

\* C5: preparar_csv_para_copy writes a row that passes the six checks as one
\* normalized row and counts any other row once, in the counter of the first
\* check it fails.
C5_PrimerFalloGana ==
    salida # <<>> =>
        /\ \A n \in 1..6 :
              salida[1].errores[Controles[n]]
                  = Cardinality(FilasConFallo(entrada.filas, n))
        /\ Len(salida[1].limpio) = Cardinality(FilasConFallo(entrada.filas, 0))
        /\ salida[1].filas_validas = Len(salida[1].limpio)

\* a file has been read that holds a row failing two checks and a row
\* passing all
C5_Testigo ==
    /\ salida # <<>>
    /\ \E k \in 1..Len(entrada.filas) :
          /\ PrimerFallo(entrada.filas[k]) = 1
          /\ FallaControl(3, entrada.filas[k])
    /\ FilasConFallo(entrada.filas, 0) # {}

\* the rows of a listing that pass validation, as the staging table stores
\* them
RECURSIVE BolsaAceptadas(_)
BolsaAceptadas(filas) ==
    IF filas = <<>> THEN EmptyBag
    ELSE (IF PrimerFallo(Head(filas)) = 0
          THEN SetToBag({FilaStaging(ValidarFila(Head(filas)).salida[1])})
          ELSE EmptyBag) (+) BolsaAceptadas(Tail(filas))

ListadoDe(n) == Archivo(n).productos[1]

\* the accepted rows of the listing files among the first m processed whose
\* bulk load committed
RECURSIVE BolsaCargadas(_)
BolsaCargadas(m) ==
    IF m = 0 THEN EmptyBag
    ELSE (IF reg3[m].resultado = "cargado"
          THEN BolsaAceptadas(ListadoDe(reg3[m].pos).filas)
          ELSE EmptyBag) (+) BolsaCargadas(m - 1)

\* C6: at the end of the staging phase productos_staging holds the accepted
\* rows of the listing files whose bulk load committed and no other row, and
\* total_productos is its number of rows.
C6_StagingSoloAceptadas ==
    pc = "fase4" =>
        /\ db.productos_staging = BolsaCargadas(Len(reg3))
        /\ conn.vista.productos_staging = db.productos_staging
        /\ total_productos = BagCardinality(db.productos_staging)

\* the staging phase has ended after loading a listing that also holds
\* rejected rows
C6_Testigo ==
    /\ pc = "fase4"
    /\ \E k \in 1..Len(reg3) :
          /\ reg3[k].resultado = "cargado"
          /\ reg3[k].errores > 0
    /\ db.productos_staging # EmptyBag

OrdenDeFases == <<"truncate", "merchants", "stage", "compact", "index", "report">>

Prefijo(s, t) == Len(s) <= Len(t) /\ \A k \in 1..Len(s) : s[k] = t[k]

\* C7: the phases of a run are executed in the fixed order, each at most
\* once; compaction only once the listing of every allowed archive has been
\* processed; a completed run has executed them all.
C7_FasesEnOrden ==
    /\ Prefijo(fases, OrdenDeFases)
    /\ Compactado =>
          /\ zips_comercios = ZipsPermitidos(zips)
          /\ Len(reg3) = Len(zips_comercios)
          /\ \A k \in 1..Len(reg3) : reg3[k].pos = zips_comercios[k]
    /\ pc = "DONE" => fases = OrdenDeFases

\* a run over two allowed archives has completed
C7_Testigo == pc = "DONE" /\ Len(zips_comercios) = 2 /\ Len(reg3) = 2

\* the rows of a listing that pass validation, as written to the clean file
FilasLimpias(filas) ==
    SelectSeq([k \in 1..Len(filas) |-> filas[k]], LAMBDA f : PrimerFallo(f) = 0)

\* the listing file of archive n is present and readable as an archive
ConListado(n) == ~Archivo(n).corrupto /\ Archivo(n).productos # <<>>

\* the bulk load of the listing of archive n fails: reading the file raises,
\* or one of its accepted rows does not fit the staging columns
FallaCarga(n) ==
    /\ ConListado(n)
    /\ \/ ListadoDe(n).error_en \in 1..Len(ListadoDe(n).filas)
       \/ \E f \in Rango(FilasLimpias(ListadoDe(n).filas)) :
              ~FilaCopiable(ValidarFila(f).salida[1])

\* the listing of archive n has accepted rows and all of them fit
SeCarga(n) ==
    /\ ConListado(n)
    /\ ~FallaCarga(n)
    /\ FilasLimpias(ListadoDe(n).filas) # <<>>

\* the accepted rows of the loadable listings among the first m processed
RECURSIVE BolsaCargables(_)
BolsaCargables(m) ==
    IF m = 0 THEN EmptyBag
    ELSE (IF SeCarga(reg3[m].pos)
          THEN BolsaAceptadas(ListadoDe(reg3[m].pos).filas)
          ELSE EmptyBag) (+) BolsaCargables(m - 1)

\* C9: a listing file whose bulk load fails is reported with zero rows and
\* leaves no transaction in flight; staging then holds no row of it, keeps
\* the rows committed for the earlier archives, and receives the rows of
\* every loadable listing processed after it.
C9_FalloDeCargaAislado ==
    pc \in {"fase3", "fase4"} =>
        /\ conn.estado = "idle"
        /\ conn.vista = db
        /\ \A k \in 1..Len(reg3) :
              /\ FallaCarga(reg3[k].pos) =>
                    reg3[k].resultado = "error" /\ reg3[k].filas = 0
              /\ SeCarga(reg3[k].pos) =>
                    /\ reg3[k].resultado = "cargado"
                    /\ reg3[k].filas = Len(FilasLimpias(ListadoDe(reg3[k].pos).filas))
        /\ db.productos_staging = BolsaCargables(Len(reg3))

\* a bulk load has failed and the listing processed after it is staged
C9_Testigo ==
    /\ pc = "fase4"
    /\ Len(reg3) = 2
    /\ FallaCarga(reg3[1].pos)
    /\ reg3[1].resultado = "error"
    /\ reg3[2].resultado = "cargado"
    /\ db.productos_staging # EmptyBag

\* processing archive n in the merchant-loading phase fails: the archive is
\* corrupt, holds no comercio.csv, reading the file raises, or an INSERT of
\* one of its rows raises
FallaComercio(n) ==
    \/ Archivo(n).corrupto
    \/ Archivo(n).comercio = <<>>
    \/ LET csv == Archivo(n).comercio[1]
       IN  \/ csv.error_en \in 1..Len(csv.filas)
           \/ \E k \in 1..Len(csv.filas) :
                  ClasificarComercio(csv.filas[k]) = "db_error"

\* the registry after the valid rows of a metadata file, from row k on
RECURSIVE RegistroTras(_, _, _)
RegistroTras(comercios, filas, k) ==
    IF k > Len(filas) THEN comercios
    ELSE RegistroTras(IF ClasificarComercio(filas[k]) = "insert"
                      THEN Upsert(comercios, RegistroComercio(filas[k]))
                      ELSE comercios, filas, k + 1)

\* the registry after the first m allowed archives when each failing archive
\* contributes nothing and every other one its valid rows
RECURSIVE ComerciosEsperados(_)
ComerciosEsperados(m) ==
    IF m = 0 THEN {}
    ELSE LET n == zips_comercios[m]
         IN  IF FallaComercio(n) THEN ComerciosEsperados(m - 1)
             ELSE RegistroTras(ComerciosEsperados(m - 1),
                               Archivo(n).comercio[1].filas, 1)

\* C10: when the merchant-loading phase ends, comercios holds the valid
\* metadata rows of every allowed archive whose processing did not fail and
\* no row of an archive whose processing failed.
C10_FalloDeComercioAislado ==
    (pc = "fase3" /\ reg3 = <<>>) =>
        db.comercios = ComerciosEsperados(Len(zips_comercios))

\* C8: every run that gets as far as connecting to the database ends in
\* DONE, unless a setup failure or a database error ends it in FAILED.
C8_TerminaEnDone ==
    (pc = "conectar") ~>
        (pc = "DONE" \/ (pc = "FAILED" /\ causa \in {"setup", "db"}))

Codigos == {Cod123, Cod124}

\* C11: while a run over a store left by a completed run has not reached
\* DONE, a query returns what it returned before the run started; it never
\* finds the listing table emptied or half filled.
C11_LectoresVenAlmacenAnterior ==
    (final_previo # <<>> /\ pc # "DONE") =>
        \A codigo \in Codigos :
            buscar_por_codigo_barras(db, codigo)
                = buscar_por_codigo_barras(final_previo[1], codigo)

\* the tables were reset and no merchant has been loaded yet
TrasReinicio ==
    \/ pc \in {"descomprimir", "listar"}
    \/ pc = "fase2" /\ i = 1 /\ reg2 = <<>>

\* the registry rows the metadata files of this run's allowed archives hold
RegistrosDelArchivo ==
    UNION {{RegistroComercio(Archivo(n).comercio[1].filas[k]) :
               k \in 1..Len(Archivo(n).comercio[1].filas)} :
           n \in {m \in Rango(zips_comercios) : Archivo(m).comercio # <<>>}}

\* C12: between the table reset and the first merchant the three tables are
\* empty, committed; the rows of a completed run are rows this run staged or
\* read from its own metadata files, each listing key once.
C12_TablasVaciasTrasReinicio ==
    /\ TrasReinicio =>
          /\ db.comercios = {}
          /\ db.productos = EmptyBag
          /\ db.productos_staging = EmptyBag
          /\ conn.vista = db
          /\ conn.estado = "idle"
    /\ pc = "DONE" =>
          /\ BagToSet(db.productos) \subseteq BagToSet(staging_previo)
          /\ BagCardinality(db.productos) = Cardinality(Claves(staging_previo))
          /\ db.comercios \subseteq RegistrosDelArchivo

\* the tables have just been reset over the store a completed run left
C12_Testigo ==
    /\ TrasReinicio
    /\ final_previo # <<>>
    /\ final_previo[1].productos # EmptyBag
    /\ final_previo[1].comercios # {}

\* C13: however a run that created a scratch directory ends, neither the
\* extraction directory of the outer archive nor the scratch directory of
\* the per-merchant archives is left behind.
C13_DirectoriosEliminados ==
    pc \in {"DONE", "FAILED"} => ~temp_dir /\ ~temp_extract_dir

\* C14: the invoking process exits with a nonzero status whenever the run
\* ended in FAILED, and with status 0 when it reached DONE.
C14_SalidaSegunResultado ==
    /\ pc = "FAILED" => main # 0
    /\ pc = "DONE" => main = 0

\* a phase has just ended and the next one has not acted yet
LimiteDeFase ==
    \/ TrasReinicio
    \/ pc = "fase3" /\ reg3 = <<>>
    \/ pc \in {"fase4", "fase5", "limpieza"}

\* C15: at every phase boundary the connection has no transaction open and
\* sees exactly the committed tables; a database failure in the middle of a
\* phase leaves the committed tables as they were.
C15_SinTransaccionEntreFases ==
    /\ [](LimiteDeFase => conn.estado = "idle" /\ conn.vista = db)
    /\ [][(pc' = "FAILED" /\ causa' = "db") => db' = db]_vars

\* the merchant phase has ended after a metadata file failed with rows of it
\* already inserted
C15_Testigo ==
    /\ pc = "fase3"
    /\ reg3 = <<>>
    /\ \E k \in 1..Len(reg2) : reg2[k].resultado = "error"
    /\ db.comercios # {}

\* a metadata row the claims call valid: merchant id numeric and in the
\* allow-list, variant id non-blank and numeric
FilaBuena(fila) ==
    /\ Strip(fila.id_comercio) # <<>>
    /\ PyInt(fila.id_comercio).ok
    /\ ~PyInt(fila.id_comercio).grande
    /\ PyInt(fila.id_comercio).val \in COMERCIOS_PERMITIDOS
    /\ Strip(fila.id_bandera) # <<>>
    /\ PyInt(fila.id_bandera).ok

\* a valid row whose variant id the INTEGER column takes
FilaAceptada(fila) == FilaBuena(fila) /\ ~PyInt(fila.id_bandera).grande

ClaveDeFila(fila) == <<PyInt(fila.id_comercio).val, PyInt(fila.id_bandera).val>>

\* the rows of the file in entrada that were read: all of them, or those
\* before the row whose reading raised
Leidas ==
    IF entrada.error_en \in 1..Len(entrada.filas)
    THEN SubSeq(entrada.filas, 1, entrada.error_en - 1)
    ELSE entrada.filas

\* the last of the rows read that has the key
UltimaDeClave(clave) ==
    LET ks == {k \in 1..Len(Leidas) :
                  FilaAceptada(Leidas[k]) /\ ClaveDeFila(Leidas[k]) = clave}
    IN  Leidas[CHOOSE k \in ks : \A j \in ks : j <= k]

ClavesLeidas ==
    {ClaveDeFila(Leidas[k]) : k \in {j \in 1..Len(Leidas) : FilaAceptada(Leidas[j])}}

\* every row read is skipped or accepted by the database
SoloAceptadas ==
    \A k \in 1..Len(Leidas) : FilaBuena(Leidas[k]) => FilaAceptada(Leidas[k])

\* C16: after a call whose rows were all skipped or accepted, the registry
\* the connection sees holds one row per key of the accepted rows, with the
\* three fields of the last accepted row of the key.
C16_UltimaEscrituraGana ==
    (pc = "una_vez" /\ SoloAceptadas) =>
        /\ conn.vista.comercios =
              {[id_comercio |-> clave[1], id_bandera |-> clave[2],
                comercio_razon_social |-> UltimaDeClave(clave).comercio_razon_social,
                comercio_bandera_nombre |-> UltimaDeClave(clave).comercio_bandera_nombre,
                comercio_bandera_url |-> UltimaDeClave(clave).comercio_bandera_url] :
               clave \in ClavesLeidas}
        /\ Cardinality(conn.vista.comercios) = Cardinality(ClavesLeidas)
        /\ salida[1].resultado = "ok" => db.comercios = conn.vista.comercios

\* a file with two accepted rows of one key and different fields was imported
C16_Testigo ==
    /\ pc = "una_vez"
    /\ SoloAceptadas
    /\ salida[1].resultado = "ok"
    /\ Len(entrada.filas) = 2
    /\ FilaAceptada(entrada.filas[1])
    /\ FilaAceptada(entrada.filas[2])
    /\ ClaveDeFila(entrada.filas[1]) = ClaveDeFila(entrada.filas[2])
    /\ entrada.filas[1].comercio_bandera_url # entrada.filas[2].comercio_bandera_url
    /\ Cardinality(db.comercios) = 1

\* the registry after a call: the committed table, and the table as the
\* connection sees it unless its transaction is aborted
RegistroTrasLlamada(r) ==
    <<r.db.comercios,
      IF r.conn.estado = "aborted" THEN r.db.comercios ELSE r.conn.vista.comercios>>

\* C17: a second call with the same metadata file ends as the first one did
\* and leaves the registry as the first call left it.
C17_SegundaVezSinEfecto ==
    pc = "dos_veces" =>
        /\ RegistroTrasLlamada(salida[2]) = RegistroTrasLlamada(salida[1])
        /\ salida[2].resultado = salida[1].resultado
        /\ salida[2].contador = salida[1].contador

\* a file with accepted rows was imported twice
C17_Testigo ==
    /\ pc = "dos_veces"
    /\ salida[1].resultado = "ok"
    /\ salida[1].contador = 2
    /\ Cardinality(db.comercios) = 2

\* the file in entrada without its rows that are not valid
SoloBuenas == [filas |-> SelectSeq(entrada.filas, FilaBuena), error_en |-> 0]

\* C18: every registry row was written from a valid metadata row; the rows
\* that are not valid raise nothing and change nothing: the call ends as on
\* the file without them, and a file of such rows only ends well with an
\* empty registry.
C18_SoloFilasValidas ==
    pc = "una_vez" =>
        /\ \A c \in conn.vista.comercios \cup db.comercios :
              \E k \in 1..Len(entrada.filas) :
                  /\ FilaBuena(entrada.filas[k])
                  /\ c = RegistroComercio(entrada.filas[k])
        /\ entrada.error_en \notin 1..Len(entrada.filas) =>
              salida[1] = importar_comercios_desde_csv(ConnNueva, TablasVacias, SoloBuenas)
        /\ (entrada.error_en \notin 1..Len(entrada.filas) /\ SoloBuenas.filas = <<>>) =>
              /\ salida[1].resultado = "ok"
              /\ salida[1].contador = 0
              /\ db.comercios = {}

\* a file with a valid row and a row that is not valid was imported
C18_Testigo ==
    /\ pc = "una_vez"
    /\ Len(entrada.filas) = 2
    /\ Len(SoloBuenas.filas) = 1
    /\ salida[1].resultado = "ok"
    /\ Cardinality(db.comercios) = 1

\* the step is the import of a listing file none of whose rows is accepted
PasoListadoSinFilas ==
    /\ pc = "fase3"
    /\ Len(reg3') = Len(reg3) + 1
    /\ ConListado(zips_comercios[i])
    /\ ~FallaCarga(zips_comercios[i])
    /\ FilasLimpias(ListadoDe(zips_comercios[i]).filas) = <<>>

\* C19: the import of a listing file with no accepted row issues no COPY,
\* reports zero rows and leaves the three tables and the connection as they
\* were.
C19_SinFilasSinEfecto ==
    [][PasoListadoSinFilas =>
          /\ reg3'[Len(reg3')].resultado = "vacio"
          /\ reg3'[Len(reg3')].filas = 0
          /\ total_productos' = total_productos
          /\ db' = db
          /\ conn' = conn]_vars

\* a listing with no accepted row was imported after one that was staged
C19_Testigo ==
    /\ pc \in {"fase3", "fase4"}
    /\ Len(reg3) = 2
    /\ reg3[1].resultado = "cargado"
    /\ reg3[2].resultado = "vacio"
    /\ reg3[2].errores > 0
    /\ db.productos_staging # EmptyBag

\* C20: the compaction empties staging and returns the number of rows it
\* added to productos, which is the number of keys staged.
C20_CuentaDeCompactacion ==
    /\ pc = "fase4" =>
          \A sel \in SeleccionesDistinctOn(conn.vista.productos_staging) :
              LET r == mover_datos_staging_a_final(conn, db, sel)
              IN  /\ r.db.productos_staging = EmptyBag
                  /\ r.conn.vista.productos_staging = EmptyBag
                  /\ r.filas_insertadas
                        = BagCardinality(r.db.productos) - BagCardinality(db.productos)
                  /\ r.filas_insertadas = Cardinality(Claves(db.productos_staging))
    /\ pc = "fase5" =>
          /\ db.productos_staging = EmptyBag
          /\ BagCardinality(db.productos) = Cardinality(Claves(staging_previo))

\* the compaction has run over staged rows that share a key
C20_Testigo ==
    /\ pc = "fase5"
    /\ BagCardinality(staging_previo) > Cardinality(Claves(staging_previo))
    /\ db.productos # EmptyBag

\* C21: the compaction of given staged rows has one result: whatever row the
\* query keeps for a key, the rows added to productos are the same.
C21_CompactacionDeterminista ==
    pc = "fase4" =>
        \A s1, s2 \in SeleccionesDistinctOn(conn.vista.productos_staging) :
            mover_datos_staging_a_final(conn, db, s1).db.productos
                = mover_datos_staging_a_final(conn, db, s2).db.productos

\* C22: every row written to a clean file, staged or in the final table has
\* a price that is not negative.
C22_PrecioNoNegativo ==
    /\ \A r \in BagToSet(db.productos_staging) \cup BagToSet(db.productos)
               \cup BagToSet(conn.vista.productos_staging)
               \cup BagToSet(conn.vista.productos) : r.precio >= 0
    /\ \A k \in 1..Len(salida) :
          \A j \in 1..Len(salida[k].limpio) :
              PgNumericCents(salida[k].limpio[j].precio) >= 0

\* the pairs that have a row with the code in the final table
ParesConCodigo(codigo) ==
    {<<r.id_comercio, r.id_bandera>> :
        r \in {x \in BagToSet(db.productos) : x.id_producto = codigo}}

PrecioMinimoDePar(codigo, par) ==
    Minimo({r.precio : r \in {x \in BagToSet(db.productos) :
                /\ x.id_producto = codigo
                /\ <<x.id_comercio, x.id_bandera>> = par}})

\* C23: the list returned for a code has one entry per pair that has a row
\* with the code in productos, in the order of the pairs, each with the
\* lowest price of its pair; the endpoint answers 404 exactly when productos
\* has no row with the code.
C23_UnaEntradaPorPar ==
    \A codigo \in Codigos :
        \A lista \in buscar_por_codigo_barras(db, codigo) :
            /\ [k \in 1..Len(lista) |-> <<lista[k].id_comercio, lista[k].id_bandera>>]
                  = ParesEnOrden(ParesConCodigo(codigo))
            /\ \A k \in 1..Len(lista) :
                  lista[k].precio_lista
                      = PrecioMinimoDePar(codigo, <<lista[k].id_comercio, lista[k].id_bandera>>)
            /\ (buscar_producto(lista, codigo).status = 404)
                  <=> (ParesConCodigo(codigo) = {})

\* the outcome of locating a file in the scratch directory for archive n,
\* told from the archive alone: it is corrupt, it lacks the file, or the file
\* is there
Localizado(n, archivos) ==
    IF Archivo(n).corrupto THEN {"corrupto"}
    ELSE IF archivos = <<>> THEN {"sin_archivo"}
    ELSE {"ok", "error", "vacio", "cargado"}

\* C24: after each extraction of either pass the scratch directory holds
\* entries of the archive being processed only, and what was imported for an
\* archive is its own file: an archive that is corrupt or lacks the file
\* imports nothing, whatever the archives before it held.
C24_SoloArchivosPropios ==
    /\ (pc \in {"fase2", "fase3"} /\ i > 1) =>
          \A e \in extraido : e[1] = zips_comercios[i - 1]
    /\ \A k \in 1..Len(reg2) :
          /\ reg2[k].pos = zips_comercios[k]
          /\ reg2[k].resultado \in Localizado(reg2[k].pos, Archivo(reg2[k].pos).comercio)
    /\ \A k \in 1..Len(reg3) :
          /\ reg3[k].pos = zips_comercios[k]
          /\ reg3[k].resultado \in Localizado(reg3[k].pos, Archivo(reg3[k].pos).productos)

\* an archive without the file was processed after one that had it, in
\* either pass, or after a corrupt one
C24_Testigo ==
    /\ Len(reg3) = 2
    /\ reg2[1].resultado = "ok"
    /\ reg2[2].resultado \in {"sin_archivo", "corrupto"}
    /\ reg3[1].resultado = "cargado"

IndicesDeProductos == {"idx_codigo_barras", "idx_comercio_bandera"}

\* C25: crear_indices_productos succeeds whether or not the indexes exist,
\* leaves exactly the two indexes and the rows of the tables as they were,
\* and a second call changes nothing.
C25_IndicesIdempotente ==
    /\ pc = "fase5" =>
          LET a == crear_indices_productos(conn, db)
              b == crear_indices_productos(a.conn, a.db)
          IN  /\ a.conn.estado = "idle"
              /\ a.db.indices = IndicesDeProductos
              /\ a.db.productos = db.productos
              /\ a.db.comercios = db.comercios
              /\ b = a
    /\ pc = "limpieza" =>
          /\ conn.estado = "idle"
          /\ db.indices = IndicesDeProductos
          /\ conn.vista = db

\* the indexes were created again over those a completed run had left
C25_Testigo ==
    /\ pc = "limpieza"
    /\ final_previo # <<>>
    /\ final_previo[1].indices = IndicesDeProductos
    /\ db.productos # EmptyBag

\* the header has the form 'Bearer <token>': the prefix and a token with no
\* space in it
BienFormada(h) ==
    /\ h # <<>>
    /\ StartsWith(h[1], Bearer)
    /\ Len(h[1]) > Len(Bearer)
    /\ \A k \in (Len(Bearer) + 1)..Len(h[1]) : h[1][k] # " "

TokenDe(h) == SubSeq(h[1], Len(Bearer) + 1, Len(h[1]))

\* C26: a request without Authorization header or whose header is not of the
\* form 'Bearer <token>' is answered 401; one with a well-formed header whose
\* token is not the configured key is answered 403.
C26_CodigosDeRechazo ==
    pc = "respondida" =>
        /\ ~BienFormada(entrada.authorization) => salida[1] = "401"
        /\ (BienFormada(entrada.authorization)
            /\ <<TokenDe(entrada.authorization)>> # API_KEY(entrada.api_key_raw))
              => salida[1] = "403"

\* the day of the week in Buenos Aires at the instant in entrada, numbered
\* from Sunday: 0 Sunday, 1 Monday ... 6 Saturday
DiaDesdeDomingo ==
    LET lunes_cero == IF entrada.hora_utc < 3 THEN (entrada.dia_utc + 6) % 7
                      ELSE entrada.dia_utc
    IN  (lunes_cero + 1) % 7

\* C27: the day index used is the one the tables are keyed by, 0 for Sunday
\* to 6 for Saturday, and the archive requested is the entry of URLS_SEPA for
\* the current day in Argentina.
C27_ArchivoDelDia ==
    pc = "descargado" =>
        /\ salida[1].dia_semana = DiaDesdeDomingo
        /\ salida[1].url = URLS_SEPA[DiaDesdeDomingo]
        /\ salida[1].nombre_dia = NOMBRES_DIAS[DiaDesdeDomingo]

\* C28: a run that fails at setup (outer archive missing or not extractable)
\* leaves comercios and productos as the previous completed run left them.
C28_FalloDeSetupConservaTablas ==
    (pc = "FAILED" /\ causa = "setup" /\ final_previo # <<>>) =>
        /\ db.comercios = final_previo[1].comercios
        /\ db.productos = final_previo[1].productos

\* C29: once the cleanup of a successful run is done, the two directories
\* the run created are gone and nothing else of the system temporary
\* directory is, with a dated folder and without one.
C29_LimpiezaExacta ==
    (pc \in {"resumen", "DONE"} /\ runs = 1) =>
        /\ ~temp_dir
        /\ ~temp_extract_dir
        /\ ajenos

\* the rows of a listing that fail one of the checks
Rechazadas(filas) == Cardinality({k \in 1..Len(filas) : PrimerFallo(filas[k]) # 0})

\* the rejected rows of the listings among the first m archives processed
RECURSIVE RechazadasHasta(_)
RechazadasHasta(m) ==
    IF m = 0 THEN 0
    ELSE (IF ConListado(reg3[m].pos)
          THEN Rechazadas(ListadoDe(reg3[m].pos).filas)
          ELSE 0) + RechazadasHasta(m - 1)

\* C30: for every listing processed, accepted rows plus the six rejection
\* counters make the rows read, and at the end of the staging phase the
\* run's rejected total is the sum of the rejections of every listing
\* processed, those whose bulk load failed included.
C30_CuentaDeRechazos ==
    pc = "fase4" =>
        /\ \A k \in 1..Len(reg3) :
              ConListado(reg3[k].pos) =>
                  LET prep == preparar_csv_para_copy(ListadoDe(reg3[k].pos))
                  IN  /\ prep.filas_validas + SumaErrores(prep.errores)
                             = prep.total_filas
                      /\ prep.total_filas = Len(ListadoDe(reg3[k].pos).filas)
                      /\ SumaErrores(prep.errores)
                             = Rechazadas(ListadoDe(reg3[k].pos).filas)
        /\ total_errores = RechazadasHasta(Len(reg3))

\* the token of a header: after the prefix 'Bearer ' the text up to the next
\* space, and the whole header when it has no such prefix
TokenTomado(h) ==
    IF StartsWith(h, Bearer)
    THEN LET resto == SubSeq(h, Len(Bearer) + 1, Len(h))
             cortes == {k \in 1..Len(resto) : resto[k] = " "} \cup {Len(resto) + 1}
             fin == CHOOSE k \in cortes : \A m \in cortes : k <= m
         IN  SubSeq(resto, 1, fin - 1)
    ELSE h

\* C31: the wrapped handler is executed only for a request whose token is
\* the configured API_KEY; with API_KEY None (the variable unset or empty) no
\* request reaches the handler.
C31_SoloConLaClave ==
    pc = "respondida" =>
        /\ salida[1] = "handler" =>
              /\ entrada.authorization # <<>>
              /\ API_KEY(entrada.api_key_raw) # <<>>
              /\ TokenTomado(entrada.authorization[1])
                     = API_KEY(entrada.api_key_raw)[1]
        /\ (entrada.api_key_raw = <<>> \/ entrada.api_key_raw = <<<<>>>>)
              => salida[1] # "handler"

\* a request with the header 'Bearer k' has reached the handler
C31_Testigo ==
    /\ pc = "respondida"
    /\ salida[1] = "handler"
    /\ entrada.authorization = <<Bearer \o <<"k">>>>

\* a request with a header has been refused while no key is configured
C31_TestigoSinClave ==
    /\ pc = "respondida"
    /\ entrada.api_key_raw = <<>>
    /\ entrada.authorization = <<Bearer \o <<"k">>>>
    /\ salida[1] = "403"

=============================================================================
